---- MODULE Spec2Model ----
(***************************************************************************)
(* Training scheduler of marian (src/src/training/scheduler.h): the        *)
(* Scheduler object, the TrainingState it owns and the validators it       *)
(* drives, as a state machine whose actions are the Scheduler's public     *)
(* methods called by the training loop.                                    *)
(*                                                                         *)
(* float values are fixed-point integers with One standing for 1.0;        *)
(* a non-finite float is the single value NaN.                             *)
(*                                                                         *)
(* The last section models the thread pool of Evaluate::run                *)
(* (src/src/evaluator/evaluator.h).                                        *)
(***************************************************************************)
EXTENDS Integers, Naturals, Sequences, FiniteSets, TLC

VARIABLES
  options,      \* options_: the parsed command-line options (never written)
  mpi,          \* mpi_: "none" (nullptr), "main" or "worker" (isMainProcess())
  state,        \* *state_: the TrainingState
  validators,   \* validators_: the registered validator objects
  first,        \* first_
  endOfStdin,   \* endOfStdin_
  sigterm,      \* saveAndExitRequested(): the flag the signal handler sets
  isFinal,      \* the isFinal argument the training loop hands to validate()
  lastCall,     \* the Scheduler method that returned last
  ret,          \* what that call returned (or how it ended)
  hist,         \* history of the run: what the last call did, counted
  progressYml,  \* <name>.progress.yml: <<>> (no file) or <<the snapshot>>
  peer,         \* the Scheduler of the other process of a distributed run:
                \* <<>>, or its state, validators, sigterm and last outcome
  pool          \* the ThreadPool of Evaluate::run (src/src/evaluator/evaluator.h)
                \* with its task queue and threads: <<>> where no Evaluate runs

vars == <<options, mpi, state, validators, first, endOfStdin, sigterm,
          isFinal, lastCall, ret, hist, progressYml, peer, pool>>

-----------------------------------------------------------------------------
(* Bounds of the model *)

MaxBatches == 4
MaxEpochs == 3
MaxValidators == 2
MaxStalled == 3

-----------------------------------------------------------------------------
(* float arithmetic *)

One == 12 * 100
NaN == 0 - 1
SizeMax == 1000000

\* a test that takes every value for finite
IsFiniteAlways(x) == TRUE

IsFinite(x) == x # NaN

\* F applied to the value of v (v is evaluated once, then F)
Bind(v, F(_)) == CHOOSE r \in {F(w) : w \in {v}} : TRUE

Min(a, b) == IF a < b THEN a ELSE b

FAdd(a, b) == IF a = NaN \/ b = NaN THEN NaN ELSE a + b

FMul(a, b) == (a * b) \div One

FDiv(a, b) == (a * One) \div b

RECURSIVE Bisect(_, _, _)
Bisect(n, lo, hi) ==
  IF lo >= hi THEN lo
  ELSE LET mid == (lo + hi + 1) \div 2
       IN  IF mid * mid <= n THEN Bisect(n, mid, hi) ELSE Bisect(n, lo, mid - 1)

\* std::sqrt of the fixed-point value x
FSqrt(x) == Bisect(x * One, 0, Min(x * One, 40000))

-----------------------------------------------------------------------------
(* SchedulingParameter *)

Units == {"epochs", "updates", "trgLabels"}

\* an option text "<number><suffix>" is the pair <<number, suffix>>
Parse(text) ==
  [n    |-> text[1],
   unit |-> CASE text[2] = "e" -> "epochs"
              [] text[2] = "t" -> "trgLabels"
              [] OTHER         -> "updates"]

NoParam == [n |-> 0, unit |-> "updates"]

-----------------------------------------------------------------------------
(* TrainingState *)

getProgressIn(s, u) ==
  CASE u = "trgLabels" -> s.labelsTotal
    [] u = "updates"   -> s.batches
    [] OTHER           -> s.epochs

getPreviousProgressIn(s, u) ==
  CASE u = "trgLabels" -> s.prevLabelsTotal
    [] u = "updates"   -> s.prevBatches
    [] OTHER           -> s.prevEpochs

rememberPreviousProgress(s) ==
  [s EXCEPT !.prevLabelsTotal = s.labelsTotal,
            !.prevBatches = s.batches,
            !.prevEpochs = s.epochs]

\* a period of 0 is "every step"
enteredNewPeriodOfParam(s, period) ==
  IF period.n = 0 THEN TRUE
  ELSE getProgressIn(s, period.unit) \div period.n
         # getPreviousProgressIn(s, period.unit) \div period.n

enteredNewPeriodOf(s, text) == enteredNewPeriodOfParam(s, Parse(text))

largerThan(s, text) ==
  LET p == Parse(text) IN getProgressIn(s, p.unit) > p.n

updateEta(s, dynamicBaseLR) == [s EXCEPT !.eta = FMul(dynamicBaseLR, s.factor)]

NewTrainingState(learnRate) ==
  [epochs |-> 1, batches |-> 0, labelsTotal |-> 0,
   prevLabelsTotal |-> 0, prevBatches |-> 0, prevEpochs |-> 0,
   samplesEpoch |-> 0,
   costSum |-> 0, costCount |-> 0,
   updatesDisp |-> 0, samplesDisp |-> 0, wordsDisp |-> 0,
   stalled |-> 0, maxStalled |-> 0,
   validators |-> <<>>, validator |-> "",
   reset |-> FALSE, eta |-> learnRate, factor |-> One,
   warmupStart |-> NoParam,
   lossAvgSlow |-> 0, lossAvgFast |-> 0, lossVarSlow |-> 0,
   loaded |-> FALSE, validated |-> FALSE,
   aborted      |-> FALSE,   \* an ABORT ended the process
   stallEvents  |-> 0,       \* stall events fanned out to the observers so far
   observations |-> 0,       \* losses folded into the moving averages so far
   firings      |-> 0]       \* firings of the decay so far

-----------------------------------------------------------------------------
(* Scheduler: learning rate *)

\* only the number of arguments is checked
ScheduledLRDecayAbortsOnCountOnly ==
  Len(options.lrDecayInvSqrt) = 0 \/ Len(options.lrDecayInvSqrt) > 2

\* the ABORT_IFs of getScheduledLRDecayFactor
ScheduledLRDecayAborts ==
  LET args == options.lrDecayInvSqrt IN
  \/ Len(args) = 0
  \/ Len(args) > 2
  \/ /\ Len(args) > 1
     /\ Parse(args[2]).n > 0
     /\ Parse(args[2]).unit # Parse(args[1]).unit

\* a single argument taken as the scale of a decay that starts at progress 0
getScheduledLRDecayFactorFromZero(s) ==
  LET args        == options.lrDecayInvSqrt
      decayGoogle == Parse(args[1])
      progress    == getProgressIn(s, decayGoogle.unit)
      start       == IF Len(args) > 1 THEN Parse(args[2]).n ELSE 0
  IN  IF decayGoogle.n > 0 /\ progress > start
      THEN FSqrt(FDiv(decayGoogle.n, progress - start + decayGoogle.n))
      ELSE One

getScheduledLRDecayFactor(s) ==
  LET args        == options.lrDecayInvSqrt
      decayGoogle == Parse(args[1])
      progress    == getProgressIn(s, decayGoogle.unit)
      start       == IF Len(args) > 1 THEN Parse(args[2]).n ELSE decayGoogle.n
  IN  IF decayGoogle.n > 0 /\ progress > start
      THEN FSqrt(FDiv(decayGoogle.n, progress - start + decayGoogle.n))
      ELSE One

\* the ABORT_IF of updateLearningRate, and those of the call it makes
UpdateLearningRateAborts(s) ==
  LET warmupParam == Parse(options.lrWarmup) IN
  \/ /\ warmupParam.n > 0
     /\ s.warmupStart.n > 0
     /\ s.warmupStart.unit # warmupParam.unit
  \/ ScheduledLRDecayAborts

\* size_t subtraction wraps around
SizeSub(a, b) == IF a >= b THEN a - b ELSE SizeMax - (b - a)

WarmupFactor(s) ==
  LET warmupParam == Parse(options.lrWarmup)
      bno == SizeSub(getProgressIn(s, warmupParam.unit), s.warmupStart.n)
  IN  IF warmupParam.n > 0 THEN Min(One, FDiv(bno, warmupParam.n)) ELSE One

updateLearningRate(s) ==
  IF s.aborted THEN s
  ELSE IF UpdateLearningRateAborts(s) THEN [s EXCEPT !.aborted = TRUE]
  ELSE LET lrStart == options.lrWarmupStartRate
           baselr  == lrStart + FMul(options.learnRate - lrStart, WarmupFactor(s))
       IN  updateEta(s, FMul(baselr, getScheduledLRDecayFactor(s)))

-----------------------------------------------------------------------------
(* Scheduler: stalled validations *)

stalled1st(vs) ==
  IF Len(vs) > 0 THEN vs[1].stalled ELSE 0

RECURSIVE MaxFrom(_, _, _)
MaxFrom(vs, max, k) ==
  IF k > Len(vs) THEN max
  ELSE MaxFrom(vs, IF vs[k].stalled > max THEN vs[k].stalled ELSE max, k + 1)

RECURSIVE MinFrom(_, _, _)
MinFrom(vs, min, k) ==
  IF k > Len(vs) THEN min
  ELSE MinFrom(vs, IF vs[k].stalled < min THEN vs[k].stalled ELSE min, k + 1)

stalledMax(vs) == MaxFrom(vs, 0, 1)

\* stalledMin() without the test for "no validator seen"
stalledMinUnchecked(vs) == MinFrom(vs, SizeMax, 1)

stalledMin(vs) ==
  LET min == MinFrom(vs, SizeMax, 1)
  IN  IF min = SizeMax THEN 0 ELSE min

stalled(vs) ==
  LET stopOn == options.earlyStoppingOn IN
  IF stopOn = "any" THEN stalledMax(vs)
  ELSE IF stopOn = "all" THEN stalledMin(vs)
  ELSE stalled1st(vs)

-----------------------------------------------------------------------------
(* Scheduler: stop decision *)

\* calculateLogicalEpoch() > n, the float division by logicalEpoch_.n multiplied out
LogicalEpochExceeds(s, n) ==
  LET le == Parse(options.logicalEpoch)
  IN  getProgressIn(s, le.unit) > n * le.n

\* a stopping criterion that holds only at the threshold itself
StoppingCriterionMetExactly(s, text) ==
  LET c == Parse(text) IN
  /\ c.n > 0
  /\ \/ c.unit = "epochs"    /\ LogicalEpochExceeds(s, c.n)
     \/ c.unit = "updates"   /\ s.batches = c.n
     \/ c.unit = "trgLabels" /\ s.labelsTotal = c.n

StoppingCriterionMet(s, text) ==
  LET c == Parse(text) IN
  /\ c.n > 0
  /\ \/ c.unit = "epochs"    /\ LogicalEpochExceeds(s, c.n)
     \/ c.unit = "updates"   /\ s.batches >= c.n
     \/ c.unit = "trgLabels" /\ s.labelsTotal >= c.n

\* keepGoing with the batch criterion off by one
keepGoingLate ==
  IF sigterm THEN FALSE
  ELSE IF options.afterEpochs > 0 /\ LogicalEpochExceeds(state, options.afterEpochs)
       THEN FALSE
  ELSE IF options.afterBatches > 0 /\ state.batches > options.afterBatches
       THEN FALSE
  ELSE IF \E i \in 1..Len(options.after) : StoppingCriterionMet(state, options.after[i])
       THEN FALSE
  ELSE IF options.earlyStopping > 0 /\ stalled(validators) >= options.earlyStopping
       THEN FALSE
  ELSE IF endOfStdin THEN FALSE
  ELSE TRUE

keepGoing ==
  IF sigterm THEN FALSE
  ELSE IF options.afterEpochs > 0 /\ LogicalEpochExceeds(state, options.afterEpochs)
       THEN FALSE
  ELSE IF options.afterBatches > 0 /\ state.batches >= options.afterBatches
       THEN FALSE
  ELSE IF \E i \in 1..Len(options.after) : StoppingCriterionMet(state, options.after[i])
       THEN FALSE
  ELSE IF options.earlyStopping > 0 /\ stalled(validators) >= options.earlyStopping
       THEN FALSE
  ELSE IF endOfStdin THEN FALSE
  ELSE TRUE

-----------------------------------------------------------------------------
(* Scheduler: cadence queries *)

\* validating() without the valid-from floor
validatingNoFloor ==
  /\ Len(validators) > 0
  /\ enteredNewPeriodOf(state, options.validFreq)
  /\ keepGoing

validating ==
  /\ Len(validators) > 0
  /\ enteredNewPeriodOf(state, options.validFreq)
  /\ largerThan(state, options.validFrom)
  /\ keepGoing

saving ==
  /\ enteredNewPeriodOf(state, options.saveFreq)
  /\ largerThan(state, options.saveFrom)

syncing == enteredNewPeriodOf(state, options.syncFreq)

replacingWithSmoothed ==
  IF options.exponentialSmoothing # 0
  THEN enteredNewPeriodOf(state, options.exponentialSmoothingReplaceFreq)
  ELSE FALSE

-----------------------------------------------------------------------------
(* Scheduler: learning-rate decay, the TrainingObserver hooks *)

\* "lr-decay-repeat-warmup": warmupStart.n is assigned, warmupStart.unit is not
RestartWarmup(s) ==
  [s EXCEPT !.warmupStart.n = getProgressIn(s, Parse(options.lrWarmup).unit)]

\* a firing that multiplies the factor twice
DecayTwice(s) ==
  [s EXCEPT !.factor = FMul(FMul(s.factor, options.lrDecay), options.lrDecay),
            !.firings = s.firings + 1]

\* one firing of the decay
Decay(s) ==
  Bind(updateLearningRate([s EXCEPT !.factor = FMul(s.factor, options.lrDecay),
                                    !.firings = s.firings + 1]),
       LAMBDA s1 :
         IF s1.aborted THEN s1
         ELSE Bind([s1 EXCEPT !.reset = options.lrDecayResetOptimizer],
                   LAMBDA s2 :
                     IF options.lrDecayRepeatWarmup THEN RestartWarmup(s2) ELSE s2))

\* the combined strategies asking for both thresholds
EpochDecayDueBoth(s) ==
  /\ options.lrDecayStrategy \in {"epoch", "epoch+batches", "epoch+stalled"}
  /\ options.lrDecayStart[1] > 0
  /\ s.epochs >= options.lrDecayStart[1]
  /\ options.lrDecayStrategy = "epoch+batches" =>
       (options.lrDecayStart[2] > 0 /\ s.batches >= options.lrDecayStart[2])
  /\ options.lrDecayStrategy = "epoch+stalled" =>
       (options.lrDecayStart[2] > 0 /\ s.maxStalled >= options.lrDecayStart[2])

EpochDecayDue(s) ==
  LET strategy == options.lrDecayStrategy
      start    == options.lrDecayStart
  IN  \/ /\ strategy \in {"epoch", "epoch+batches", "epoch+stalled"}
         /\ start[1] > 0
         /\ s.epochs >= start[1]
      \/ /\ strategy = "epoch+batches"
         /\ start[2] > 0
         /\ s.batches >= start[2]
      \/ /\ strategy = "epoch+stalled"
         /\ start[2] > 0
         /\ s.maxStalled >= start[2]

actAfterEpoch(s) ==
  Bind(updateLearningRate(s), LAMBDA s1 :
    IF s1.aborted \/ ~(options.lrDecay > 0) THEN s1
    ELSE Bind([s1 EXCEPT !.reset = FALSE], LAMBDA s2 :
           IF EpochDecayDue(s2) THEN Decay(s2) ELSE s2))

\* the batch test without the comparison of the strategy
BatchDecayDueAnyStrategy(s) ==
  /\ options.lrDecayStart[1] > 0
  /\ options.lrDecayFreq > 0
  /\ s.batches >= options.lrDecayStart[1]
  /\ (s.batches - options.lrDecayStart[1]) % options.lrDecayFreq = 0

\* the batch test without the frequency
BatchDecayDueEveryBatch(s) ==
  /\ options.lrDecayStrategy = "batches"
  /\ options.lrDecayStart[1] > 0
  /\ options.lrDecayFreq > 0
  /\ s.batches >= options.lrDecayStart[1]

BatchDecayDue(s) ==
  LET start == options.lrDecayStart[1]
      freq  == options.lrDecayFreq
  IN  /\ options.lrDecayStrategy = "batches"
      /\ start > 0
      /\ freq > 0
      /\ s.batches >= start
      /\ (s.batches - start) % freq = 0

\* the two warm-up restarts at the end of actAfterBatches
RestartAtReloadOrCycle(s) ==
  Bind(IF first /\ options.lrWarmupAtReload THEN RestartWarmup(s) ELSE s,
       LAMBDA s3 :
         IF options.lrWarmupCycle /\ enteredNewPeriodOf(s3, options.lrWarmup)
         THEN RestartWarmup(s3) ELSE s3)

\* a batch-end hook that leaves the request of an earlier hook standing
actAfterBatchesKeepingReset(s) ==
  Bind(updateLearningRate(s), LAMBDA s1 :
    IF s1.aborted THEN s1
    ELSE Bind(IF options.lrDecay > 0 /\ BatchDecayDue(s1) THEN Decay(s1) ELSE s1,
              LAMBDA s2 :
                IF s2.aborted THEN s2 ELSE RestartAtReloadOrCycle(s2)))

actAfterBatches(s) ==
  Bind([s EXCEPT !.reset = FALSE], LAMBDA s0 :
    Bind(updateLearningRate(s0), LAMBDA s1 :
      IF s1.aborted THEN s1
      ELSE Bind(IF options.lrDecay > 0 /\ BatchDecayDue(s1) THEN Decay(s1) ELSE s1,
                LAMBDA s2 :
                  IF s2.aborted THEN s2 ELSE RestartAtReloadOrCycle(s2))))

\* the stalled test as a threshold instead of a multiple
StalledDecayDueFromThreshold(s) ==
  /\ options.lrDecayStrategy = "stalled"
  /\ options.lrDecayStart[1] > 0
  /\ s.stalled >= options.lrDecayStart[1]

StalledDecayDue(s) ==
  LET startStalled == options.lrDecayStart[1]
  IN  /\ options.lrDecayStrategy = "stalled"
      /\ startStalled > 0
      /\ s.stalled > 0
      /\ s.stalled % startStalled = 0

actAfterStalled(s) ==
  Bind([s EXCEPT !.reset = FALSE], LAMBDA s0 :
    Bind(updateLearningRate(s0), LAMBDA s1 :
      IF s1.aborted THEN s1
      ELSE IF options.lrDecay > 0 /\ StalledDecayDue(s1) THEN Decay(s1)
      ELSE s1))

-----------------------------------------------------------------------------
(* TrainingState: the transitions that fan out to the observers *)

newEpoch(s) ==
  LET s1 == actAfterEpoch([s EXCEPT !.epochs = s.epochs + 1])
  IN  IF s1.aborted THEN s1 ELSE [s1 EXCEPT !.samplesEpoch = 0]

newUpdate(s) ==
  actAfterBatches([s EXCEPT !.batches = s.batches + 1,
                            !.loaded = FALSE,
                            !.validated = FALSE])

newStalled(s, num) ==
  actAfterStalled([s EXCEPT !.stallEvents = s.stallEvents + 1,
                            !.stalled = num,
                            !.maxStalled = IF num > s.maxStalled
                                           THEN s.maxStalled + 1
                                           ELSE s.maxStalled])

-----------------------------------------------------------------------------
(* Scheduler: divergence detection (the fields the constructor derives from
   "throw-on-divergence") *)

LossAvgWindowSlowDefault == 1000
LossAvgWindowFastDefault == 10
DivergenceToleranceDefault == 5

\* the detector switched on whatever the option says
throwOnDivergenceAlways == TRUE

throwOnDivergence == Len(options.throwOnDivergence) > 0

lossAvgWindowSlow ==
  IF Len(options.throwOnDivergence) > 0
  THEN options.throwOnDivergence[1][1] ELSE LossAvgWindowSlowDefault

lossAvgWindowFast ==
  IF Len(options.throwOnDivergence) > 1
  THEN options.throwOnDivergence[2][1] ELSE LossAvgWindowFastDefault

divergenceTolerance ==
  IF Len(options.throwOnDivergence) > 2
  THEN options.throwOnDivergence[3][1] ELSE DivergenceToleranceDefault * One

throwAfter ==
  IF Len(options.throwOnDivergence) > 3
  THEN Parse(options.throwOnDivergence[4]) ELSE NoParam

\* rationalLoss.loss / rationalLoss.count
NormalizedLoss(rationalLoss) ==
  IF rationalLoss.loss = NaN \/ rationalLoss.count = NaN \/ rationalLoss.count = 0
  THEN NaN
  ELSE FDiv(rationalLoss.loss, rationalLoss.count)

\* "set some reasonable defaults during training start"
InitLossStats(s, loss) ==
  IF s.lossAvgSlow = 0
  THEN [s EXCEPT !.lossAvgSlow = loss, !.lossAvgFast = loss, !.lossVarSlow = 0]
  ELSE s

SigmasDiverged(s) ==
  FDiv(s.lossAvgFast - s.lossAvgSlow, FSqrt(s.lossVarSlow))

Diverged(s) ==
  /\ s.batches > lossAvgWindowSlow
  /\ s.lossAvgFast - s.lossAvgSlow > 0
  /\ FSqrt(s.lossVarSlow) > 0
  /\ SigmasDiverged(s) > divergenceTolerance

DiagnosticDue(s) ==
  /\ throwAfter.n > 0
  /\ enteredNewPeriodOfParam(s, throwAfter)

\* the statistics folded without centring the loss on the averages
FoldLossNotCentred(s, loss) ==
  LET windowSlow == Min(lossAvgWindowSlow, s.batches)
      windowFast == Min(lossAvgWindowFast, s.batches)
      alphaSlow  == FDiv(2, windowSlow + 1)
      alphaFast  == FDiv(2, windowFast + 1)
  IN  [s EXCEPT
         !.lossAvgSlow = s.lossAvgSlow + FMul(alphaSlow, loss),
         !.lossVarSlow = FMul(One - alphaSlow,
                              s.lossVarSlow + FMul(alphaSlow, FMul(loss, loss))),
         !.lossAvgFast = s.lossAvgFast + FMul(alphaFast, loss),
         !.observations = s.observations + 1]

FoldLoss(s, loss) ==
  LET windowSlow == Min(lossAvgWindowSlow, s.batches)
      windowFast == Min(lossAvgWindowFast, s.batches)
      alphaSlow  == FDiv(2, windowSlow + 1)
      alphaFast  == FDiv(2, windowFast + 1)
      deltaSlow  == loss - s.lossAvgSlow
      deltaFast  == loss - s.lossAvgFast
  IN  [s EXCEPT
         !.lossAvgSlow = s.lossAvgSlow + FMul(alphaSlow, deltaSlow),
         !.lossVarSlow = FMul(One - alphaSlow,
                              s.lossVarSlow + FMul(alphaSlow, FMul(deltaSlow, deltaSlow))),
         !.lossAvgFast = s.lossAvgFast + FMul(alphaFast, deltaFast),
         !.observations = s.observations + 1]

-----------------------------------------------------------------------------
(* Scheduler::update *)

DisplayDue(s) ==
  \/ enteredNewPeriodOf(s, options.dispFreq)
  \/ s.batches <= options.dispFirst

\* a display that restarts the cost window only
ResetCostOnly(s) ==
  [s EXCEPT !.costSum = 0, !.costCount = 0]

ResetDisplay(s) ==
  [s EXCEPT !.costSum = 0, !.costCount = 0,
            !.updatesDisp = 0, !.samplesDisp = 0, !.wordsDisp = 0]

\* mpi_->allReduce(.., MPI_SUM): remote is the sum over the other workers
AllReduce(rationalLoss, remote) ==
  IF mpi = "none" THEN rationalLoss
  ELSE [loss  |-> FAdd(rationalLoss.loss, remote.loss),
        count |-> FAdd(rationalLoss.count, remote.count)]

\* an update() that counts the batch's labels for the display only
AccumulateDisplayOnly(s, rationalLoss, batchSize, batchLabels) ==
  [s EXCEPT !.costSum      = FAdd(s.costSum, rationalLoss.loss),
            !.costCount    = FAdd(s.costCount, rationalLoss.count),
            !.updatesDisp  = s.updatesDisp + 1,
            !.samplesDisp  = s.samplesDisp + batchSize,
            !.wordsDisp    = s.wordsDisp + batchLabels,
            !.samplesEpoch = s.samplesEpoch + batchSize]

Accumulate(s, rationalLoss, batchSize, batchLabels) ==
  [s EXCEPT !.costSum      = FAdd(s.costSum, rationalLoss.loss),
            !.costCount    = FAdd(s.costCount, rationalLoss.count),
            !.updatesDisp  = s.updatesDisp + 1,
            !.samplesDisp  = s.samplesDisp + batchSize,
            !.wordsDisp    = s.wordsDisp + batchLabels,
            !.samplesEpoch = s.samplesEpoch + batchSize,
            !.labelsTotal  = s.labelsTotal + batchLabels]

\* the divergence detector's part of update(), for a finite loss: the state
\* it leaves and how it ends
DetectDivergence(s, loss) ==
  Bind(InitLossStats(s, loss), LAMBDA s4 :
    IF Diverged(s4) THEN [state |-> s4, outcome |-> "divergence"]
    ELSE IF DiagnosticDue(s4) THEN [state |-> s4, outcome |-> "diagnostic"]
    ELSE [state |-> FoldLoss(s4, loss), outcome |-> "ok"])

\* the end of update(): the display window
Display(s) == IF DisplayDue(s) THEN ResetDisplay(s) ELSE s

\* update() without the call of rememberPreviousProgress()
UpdateResultNotRemembering(s, rationalLoss, batchSize, batchLabels) ==
  Bind([s EXCEPT !.validated = FALSE], LAMBDA s1 :
    Bind(Accumulate(s1, rationalLoss, batchSize, batchLabels), LAMBDA s2 :
      Bind(newUpdate(s2), LAMBDA s3 :
        IF s3.aborted THEN [state |-> s3, outcome |-> "aborted"]
        ELSE IF throwOnDivergence /\ IsFinite(NormalizedLoss(rationalLoss))
        THEN Bind(DetectDivergence(s3, NormalizedLoss(rationalLoss)), LAMBDA r :
               IF r.outcome = "ok"
               THEN Bind(r.state, LAMBDA s5 : [state |-> Display(s5), outcome |-> "ok"])
               ELSE r)
        ELSE [state |-> Display(s3), outcome |-> "ok"])))

\* the state update() leaves and how it ends: "ok", or the exception it throws
UpdateResult(s, rationalLoss, batchSize, batchLabels) ==
  Bind([rememberPreviousProgress(s) EXCEPT !.validated = FALSE], LAMBDA s1 :
    Bind(Accumulate(s1, rationalLoss, batchSize, batchLabels), LAMBDA s2 :
      Bind(newUpdate(s2), LAMBDA s3 :
        IF s3.aborted THEN [state |-> s3, outcome |-> "aborted"]
        ELSE IF throwOnDivergence /\ IsFinite(NormalizedLoss(rationalLoss))
        THEN Bind(DetectDivergence(s3, NormalizedLoss(rationalLoss)), LAMBDA r :
               IF r.outcome = "ok"
               THEN Bind(r.state, LAMBDA s5 : [state |-> Display(s5), outcome |-> "ok"])
               ELSE r)
        ELSE [state |-> Display(s3), outcome |-> "ok"])))

-----------------------------------------------------------------------------
(* Validators (ValidatorBase): lower scores are better *)

MaxScore == 2
Scores == 1..MaxScore
initScore == MaxScore + 1

\* runs, computed: how often validate() handled the validator, and how often it
\* called validator->validate(), since the last update()
NewValidator(type) ==
  [type |-> type, stalled |-> 0, lastBest |-> initScore, runs |-> 0, computed |-> 0]

\* validator->validate(): the score is computed and the validator's own
\* stalled counter and last-best score follow it
ValidatorRun(v, score) ==
  IF v.lastBest > score
  THEN [v EXCEPT !.stalled = 0, !.lastBest = score,
                 !.runs = v.runs + 1, !.computed = v.computed + 1]
  ELSE [v EXCEPT !.stalled = v.stalled + 1,
                 !.runs = v.runs + 1, !.computed = v.computed + 1]

\* a worker whose validator is not brought up to date by the broadcasts
ValidatorReceiveNothing(v, score) ==
  [v EXCEPT !.runs = v.runs + 1]

\* mpi_->bCast(&validator->stalled()), (&validator->lastBest()) on a worker:
\* the main process sends what its validator, which every earlier broadcast
\* kept equal to this one, holds after it has computed the score
ValidatorReceive(v, score) ==
  [v EXCEPT !.stalled = ValidatorRun(v, score).stalled,
            !.lastBest = ValidatorRun(v, score).lastBest,
            !.runs = v.runs + 1]

-----------------------------------------------------------------------------
(* The run *)

\* the TrainingState entries validate() writes from the validators
RecordValidators(s, vs) ==
  [s EXCEPT !.validators =
     [t \in {vs[i].type : i \in DOMAIN vs} |->
        LET i == CHOOSE k \in DOMAIN vs : vs[k].type = t
        IN  [lastBest |-> vs[i].lastBest, stalled |-> vs[i].stalled]] @@ @]

CadenceQueries == {"saving", "syncing", "replacingWithSmoothed"}

NoAnswers == [q \in CadenceQueries |-> "none"]

NoHist ==
  [outcome |-> "ok",      \* how the last call ended
   value |-> 0,           \* the number the last call returned, if it returns one
   entered |-> 0,         \* update()s after which the save-freq period was entered
   maxLabels |-> 0,       \* the largest batchLabels an update() was given
   lastLoss |-> 0,        \* the normalized loss of the last update()
   sameLoss |-> TRUE,     \* every update() so far had the same normalized loss
   answers |-> NoAnswers, \* what each cadence query returned since the last update()
   saved |-> <<>>,        \* <<the TrainingState the last save() was given>>
   registered |-> {}]     \* the validator types addValidator() was ever given

Running ==
  /\ ~state.aborted
  /\ hist.outcome \notin {"divergence", "diagnostic", "deadlock"}

InitWith(opts, role) ==
  /\ options = opts
  /\ mpi = role
  /\ state = updateLearningRate(NewTrainingState(opts.learnRate))
  /\ validators = <<>>
  /\ first = TRUE
  /\ endOfStdin = FALSE
  /\ sigterm = FALSE
  /\ isFinal = FALSE
  /\ lastCall = "Scheduler"
  /\ ret = FALSE
  /\ hist = NoHist
  /\ progressYml = <<>>
  /\ peer = <<>>
  /\ pool = <<>>

\* the Scheduler of a run in which the validators vs have validated before
InitValidated(opts, vs) ==
  /\ options = opts
  /\ mpi = "none"
  /\ state = [RecordValidators(updateLearningRate(NewTrainingState(opts.learnRate)), vs)
               EXCEPT !.validator = IF Len(vs) > 0 THEN vs[1].type ELSE @]
  /\ validators = vs
  /\ first = TRUE
  /\ endOfStdin = FALSE
  /\ sigterm = FALSE
  /\ isFinal = FALSE
  /\ lastCall = "Scheduler"
  /\ ret = FALSE
  /\ hist = [NoHist EXCEPT !.registered = {vs[i].type : i \in DOMAIN vs}]
  /\ progressYml = <<>>
  /\ peer = <<>>
  /\ pool = <<>>

\* an addValidator() that initialises the entry of a loaded state too
RegisterValidatorAlways(s, v, isFirst) ==
  Bind([s EXCEPT !.validators =
          (v.type :> [lastBest |-> initScore, stalled |-> 0]) @@ @],
       LAMBDA s1 : IF isFirst THEN [s1 EXCEPT !.validator = v.type] ELSE s1)

\* the TrainingState addValidator() leaves
RegisterValidator(s, v, isFirst) ==
  Bind(IF ~s.loaded
       THEN [s EXCEPT !.validators =
               (v.type :> [lastBest |-> initScore, stalled |-> 0]) @@ @]
       ELSE s,
       LAMBDA s1 : IF isFirst THEN [s1 EXCEPT !.validator = v.type] ELSE s1)

\* Scheduler::addValidator; the training loop registers one validator per
\* valid-metrics entry right after it has constructed the Scheduler
AddValidatorLocal ==
  /\ Running
  /\ lastCall \in {"Scheduler", "addValidator"}
  /\ Len(validators) < options.validMetrics
  /\ \E v \in {NewValidator(Len(validators) + 1)} :
         /\ validators' = Append(validators, v)
         /\ state' = RegisterValidator(state, v, Len(validators) = 0)
         /\ hist' = [hist EXCEPT !.outcome = "ok", !.registered = @ \cup {v.type}]
  /\ lastCall' = "addValidator"
  /\ ret' = FALSE
  /\ UNCHANGED <<pool, progressYml, options, mpi, first, endOfStdin, sigterm, isFinal>>

\* addValidator() of a process, the other process of the run left alone
AddValidator == AddValidatorLocal /\ UNCHANGED peer

\* Scheduler::update(rationalLoss, batch)
UpdateLocal(rationalLoss, remote, batchSize, batchLabels) ==
  /\ Running
  /\ state.batches < MaxBatches
  /\ \E r \in {UpdateResult(state, AllReduce(rationalLoss, remote),
                            batchSize, batchLabels)} :
         /\ state' = r.state
         /\ hist' = [hist EXCEPT
                       !.outcome = r.outcome,
                       !.entered = IF r.outcome # "aborted"
                                      /\ enteredNewPeriodOf(r.state, options.saveFreq)
                                   THEN @ + 1 ELSE @,
                       !.maxLabels = IF batchLabels > @ THEN batchLabels ELSE @,
                       !.lastLoss = NormalizedLoss(AllReduce(rationalLoss, remote)),
                       !.sameLoss =
                          /\ @
                          /\ \/ state.batches = 0
                             \/ hist.lastLoss
                                  = NormalizedLoss(AllReduce(rationalLoss, remote)),
                       !.answers = NoAnswers]
  /\ validators' = [i \in DOMAIN validators |->
                      [validators[i] EXCEPT !.runs = 0, !.computed = 0]]
  /\ first' = FALSE
  /\ lastCall' = "update"
  /\ ret' = FALSE
  /\ UNCHANGED <<pool, progressYml, options, mpi, endOfStdin, sigterm, isFinal>>

\* update() of a process, the other process of the run left alone
Update(rationalLoss, remote, batchSize, batchLabels) ==
  UpdateLocal(rationalLoss, remote, batchSize, batchLabels) /\ UNCHANGED peer

\* Scheduler::increaseEpoch
IncreaseEpoch ==
  /\ Running
  /\ state.epochs < MaxEpochs
  /\ state' = newEpoch(state)
  /\ endOfStdin' = (endOfStdin \/ options.tsvStdin)
  /\ hist' = [hist EXCEPT !.outcome = IF state'.aborted THEN "aborted" ELSE "ok"]
  /\ lastCall' = "increaseEpoch"
  /\ ret' = FALSE
  /\ UNCHANGED <<pool, peer, progressYml, options, mpi, validators, first, sigterm, isFinal>>

\* the early return without the test of state_->validated
ValidateSkipsNotValidated ==
  \/ sigterm
  \/ ~enteredNewPeriodOf(state, options.validFreq) /\ ~isFinal

ValidateSkips ==
  \/ sigterm
  \/ state.validated
  \/ ~enteredNewPeriodOf(state, options.validFreq) /\ ~isFinal

\* validate() notifying about a stalled count that did not get smaller
ValidateStateNotSmaller(s, vsOld, vsNew) ==
  Bind(RecordValidators(s, vsNew), LAMBDA s1 :
    Bind(IF stalled(vsNew) >= stalled(vsOld) THEN newStalled(s1, stalled(vsNew)) ELSE s1,
         LAMBDA s2 :
           IF s2.aborted THEN s2 ELSE [s2 EXCEPT !.validated = TRUE]))

ValidateState(s, vsOld, vsNew) ==
  Bind(RecordValidators(s, vsNew), LAMBDA s1 :
    Bind(IF stalled(vsNew) > stalled(vsOld) THEN newStalled(s1, stalled(vsNew)) ELSE s1,
         LAMBDA s2 :
           IF s2.aborted THEN s2 ELSE [s2 EXCEPT !.validated = TRUE]))

\* what one validate() learns per validator: the score the validator computes
\* here, or on a worker the score the main process's validator computed
ValidationInputs == [DOMAIN validators -> Scores]

ValidatorStep(v, in) ==
  IF mpi = "worker" THEN ValidatorReceive(v, in) ELSE ValidatorRun(v, in)

\* Scheduler::validate(graphs, isFinal)
Validate ==
  /\ Running
  /\ lastCall' = "validate"
  /\ ret' = FALSE
  /\ UNCHANGED <<pool, peer, progressYml, options, mpi, first, endOfStdin, sigterm, isFinal>>
  /\ IF ValidateSkips
     THEN /\ hist' = [hist EXCEPT !.outcome = "skipped"]
          /\ UNCHANGED <<state, validators>>
     ELSE /\ \A i \in DOMAIN validators : validators[i].stalled < MaxStalled
          /\ \E in \in ValidationInputs :
               /\ validators' =
                    [i \in DOMAIN validators |-> ValidatorStep(validators[i], in[i])]
               /\ state' = ValidateState(state, validators, validators')
               /\ hist' = [hist EXCEPT
                             !.outcome = IF state'.aborted THEN "aborted" ELSE "ran"]

\* the signal handler: SIGTERM sets the flag saveAndExitRequested() reads
SignalLocal ==
  /\ Running
  /\ ~sigterm
  /\ sigterm' = TRUE
  /\ lastCall' = "signal"
  /\ ret' = FALSE
  /\ hist' = [hist EXCEPT !.outcome = "ok"]
  /\ UNCHANGED <<pool, progressYml, options, mpi, state, validators, first, endOfStdin, isFinal>>

\* the signal reaches this process only
Signal == SignalLocal /\ UNCHANGED peer

\* the training loop decides whether its next validate() is the final one
SetFinal ==
  /\ Running
  /\ isFinal' = ~isFinal
  /\ lastCall' = "loop"
  /\ ret' = FALSE
  /\ hist' = [hist EXCEPT !.outcome = "ok"]
  /\ UNCHANGED <<pool, peer, progressYml, options, mpi, state, validators, first, endOfStdin, sigterm>>

\* a call of a method that only returns a boolean
Query(name, value) ==
  /\ Running
  /\ lastCall' = name
  /\ ret' = value
  /\ hist' = [hist EXCEPT
                !.outcome = "ok",
                !.answers = IF name \in CadenceQueries
                            THEN [@ EXCEPT ![name] = IF value THEN "true" ELSE "false"]
                            ELSE @]
  /\ UNCHANGED <<pool, peer, progressYml, options, mpi, state, validators, first, endOfStdin, sigterm, isFinal>>

\* a call of a method that only returns a number
NumberQuery(name, value) ==
  /\ Running
  /\ lastCall' = name
  /\ ret' = FALSE
  /\ hist' = [hist EXCEPT !.outcome = "ok", !.value = value]
  /\ UNCHANGED <<pool, peer, progressYml, options, mpi, state, validators, first, endOfStdin, sigterm, isFinal>>

StalledCall == NumberQuery("stalled", stalled(validators))
Stalled1stCall == NumberQuery("stalled1st", stalled1st(validators))
StalledMaxCall == NumberQuery("stalledMax", stalledMax(validators))
StalledMinCall == NumberQuery("stalledMin", stalledMin(validators))

\* saving() if it moved the previous-progress mark
SavingCallRemembering ==
  /\ Running
  /\ lastCall' = "saving"
  /\ ret' = saving
  /\ state' = rememberPreviousProgress(state)
  /\ hist' = [hist EXCEPT !.outcome = "ok",
                          !.answers = [@ EXCEPT !["saving"] =
                                         IF saving THEN "true" ELSE "false"]]
  /\ UNCHANGED <<pool, peer, progressYml, options, mpi, validators, first, endOfStdin, sigterm, isFinal>>

KeepGoingCall == Query("keepGoing", keepGoing)
ValidatingCall == Query("validating", validating)
SavingCall == Query("saving", saving)
SyncingCall == Query("syncing", syncing)
ReplacingWithSmoothedCall == Query("replacingWithSmoothed", replacingWithSmoothed)

-----------------------------------------------------------------------------
(* Scheduler: dynamic mini-batch size *)

\* the warm-up ramp without the test that the ratio is below 1
MBWarmupRatioNotCapped(s) ==
  LET mbWarmup == Parse(options.miniBatchWarmup) IN
  IF mbWarmup.n > 0
  THEN Bind(FDiv(getProgressIn(s, mbWarmup.unit), mbWarmup.n),
            LAMBDA progressRatio :
              IF mbWarmup.unit = "trgLabels"
              THEN FSqrt(progressRatio) ELSE progressRatio)
  ELSE One

\* the ratio after the mini-batch-warmup part of getDynamicMBSizeMultiplier
MBWarmupRatio(s) ==
  LET mbWarmup == Parse(options.miniBatchWarmup) IN
  IF mbWarmup.n > 0
  THEN Bind(FDiv(getProgressIn(s, mbWarmup.unit), mbWarmup.n),
            LAMBDA linear :
       Bind(IF mbWarmup.unit = "trgLabels" THEN FSqrt(linear) ELSE linear,
            LAMBDA progressRatio :
              IF progressRatio < One THEN FMul(One, progressRatio) ELSE One))
  ELSE One

\* a mini-batch-track-lr part that is let through
MBTrackingReviewed == FALSE

\* ABORT("Please review this code"), the first statement of the
\* mini-batch-track-lr part
MBTrackingAborts == options.miniBatchTrackLR

\* ratio /= lrFactor, behind the ABORT
MBTrackedRatio(s, ratio) ==
  IF options.miniBatchTrackLR
  THEN FDiv(ratio, FMul(getScheduledLRDecayFactor(s), s.factor))
  ELSE ratio

\* Scheduler::getDynamicMBSizeMultiplier
getDynamicMBSizeMultiplier(s) ==
  IF MBTrackingAborts
  THEN [aborted |-> TRUE, value |-> 0]
  ELSE [aborted |-> FALSE, value |-> MBTrackedRatio(s, MBWarmupRatio(s))]

GetDynamicMBSizeMultiplierCall ==
  /\ Running
  /\ \E r \in {getDynamicMBSizeMultiplier(state)} :
       /\ state' = IF r.aborted THEN [state EXCEPT !.aborted = TRUE] ELSE state
       /\ hist' = [hist EXCEPT
                     !.outcome = IF r.aborted THEN "aborted" ELSE "ok",
                     !.value = r.value]
  /\ lastCall' = "getDynamicMBSizeMultiplier"
  /\ ret' = FALSE
  /\ UNCHANGED <<pool, peer, progressYml, options, mpi, validators, first, endOfStdin,
                 sigterm, isFinal>>

-----------------------------------------------------------------------------
(* Scheduler: persistence *)

\* TrainingState::save: the snapshot holds the fields of the training
\* progress and the map of the validators
Snapshot(s) ==
  [epochs |-> s.epochs, batches |-> s.batches, labelsTotal |-> s.labelsTotal,
   samplesEpoch |-> s.samplesEpoch,
   costSum |-> s.costSum, costCount |-> s.costCount,
   updatesDisp |-> s.updatesDisp, samplesDisp |-> s.samplesDisp,
   wordsDisp |-> s.wordsDisp,
   stalled |-> s.stalled, maxStalled |-> s.maxStalled,
   validators |-> s.validators, validator |-> s.validator,
   reset |-> s.reset, eta |-> s.eta, factor |-> s.factor,
   warmupStart |-> s.warmupStart,
   lossAvgSlow |-> s.lossAvgSlow, lossAvgFast |-> s.lossAvgFast,
   lossVarSlow |-> s.lossVarSlow]

\* TrainingState::loadFromString: every field of the snapshot replaces the
\* field of the state
loadState(s, yaml) ==
  [f \in DOMAIN s |-> IF f \in DOMAIN yaml THEN yaml[f] ELSE s[f]]

\* TrainingState::newLoad
newLoad(s) == [s EXCEPT !.loaded = TRUE]

\* the resets of valid-reset-stalled and valid-reset-all
ResetStalled(s) ==
  [s EXCEPT
     !.stalled = 0,
     !.maxStalled = 0,
     !.validators =
        [ty \in DOMAIN @ |->
           IF \E i \in DOMAIN validators : validators[i].type = ty
           THEN [lastBest |-> IF options.validResetAll
                              THEN initScore ELSE @[ty].lastBest,
                 stalled  |-> 0]
           ELSE @[ty]]]

\* Scheduler::loadFromString(yamlString); the empty string is <<>>
loadFromString(s, yamlString) ==
  Bind(IF Len(yamlString) > 0 THEN loadState(s, yamlString[1]) ELSE s,
       LAMBDA s1 :
  Bind(IF options.noRestoreCorpus
       THEN [s1 EXCEPT !.samplesEpoch = 0, !.costSum = 0, !.costCount = 0,
                       !.updatesDisp = 0, !.samplesDisp = 0, !.wordsDisp = 0]
       ELSE s1,
       LAMBDA s2 :
  Bind(IF options.validResetStalled \/ options.validResetAll
       THEN ResetStalled(s2) ELSE s2,
       LAMBDA s3 : newLoad(s3))))

\* what mpi_->isMainProcess() at the head of load() can yield: the answer of
\* the reducer, or, on a Scheduler without one, whatever the call through the
\* null pointer does
IsMainProcessInLoad ==
  CASE mpi = "main"   -> {"true"}
    [] mpi = "worker" -> {"false"}
    [] OTHER          -> {"true", "false", "crash"}

\* the string load() hands to loadFromString: the main process reads the
\* file if it exists, the reducer broadcasts what the main process read
YamlStr(isMain) ==
  IF mpi = "none"
  THEN IF isMain = "true" THEN progressYml ELSE <<>>
  ELSE progressYml

\* Scheduler::load(name); the training loop calls it once, on the Scheduler
\* it has just constructed
Load ==
  /\ Running
  /\ lastCall \in {"Scheduler", "addValidator"}
  /\ ~state.loaded
  /\ \E isMain \in IsMainProcessInLoad :
       IF isMain = "crash"
       THEN /\ state' = [state EXCEPT !.aborted = TRUE]
            /\ hist' = [hist EXCEPT !.outcome = "crashed"]
       ELSE /\ state' = loadFromString(state, YamlStr(isMain))
            /\ hist' = [hist EXCEPT !.outcome = "ok"]
  /\ lastCall' = "load"
  /\ ret' = FALSE
  /\ UNCHANGED <<pool, peer, progressYml, options, mpi, validators, first, endOfStdin,
                 sigterm, isFinal>>

\* Scheduler::save(name): the progress file is written by whichever process
\* calls it (the file system is the one the main process reads); the
\* training loop saves after an update(), on the save cadence or at shutdown
SaveLocal ==
  /\ Running
  /\ lastCall = "update"
  /\ progressYml' = <<Snapshot(state)>>
  /\ hist' = [hist EXCEPT !.outcome = "ok", !.saved = <<state>>]
  /\ lastCall' = "save"
  /\ ret' = FALSE
  /\ UNCHANGED <<pool, options, mpi, state, validators, first, endOfStdin,
                 sigterm, isFinal>>

\* save() of a process, the other process of the run left alone
Save == SaveLocal /\ UNCHANGED peer

\* the training process ends after a save() and a new one starts with the
\* same options: Scheduler::Scheduler on a new TrainingState
Restart ==
  /\ lastCall = "save"
  /\ state' = updateLearningRate(NewTrainingState(options.learnRate))
  /\ validators' = <<>>
  /\ first' = TRUE
  /\ endOfStdin' = FALSE
  /\ sigterm' = FALSE
  /\ isFinal' = FALSE
  /\ lastCall' = "Scheduler"
  /\ ret' = FALSE
  /\ hist' = [NoHist EXCEPT !.saved = hist.saved, !.registered = hist.registered]
  /\ UNCHANGED <<pool, peer, progressYml, options, mpi>>

-----------------------------------------------------------------------------
(* Options *)

BaseOptions ==
  [afterEpochs |-> 0, afterBatches |-> 0, after |-> << <<0, "e">> >>,
   earlyStopping |-> 0, earlyStoppingOn |-> "first",
   tsvStdin |-> FALSE,
   logicalEpoch |-> <<1, "e">>,
   validMetrics |-> MaxValidators,
   validFreq |-> <<2, "u">>, validFrom |-> <<0, "">>,
   saveFreq |-> <<2, "u">>, saveFrom |-> <<0, "">>,
   syncFreq |-> <<0, "">>,
   exponentialSmoothing |-> 0, exponentialSmoothingReplaceFreq |-> <<0, "">>,
   dispFreq |-> <<2, "u">>, dispFirst |-> 0,
   learnRate |-> One, lrWarmup |-> <<0, "">>, lrWarmupStartRate |-> 0,
   lrWarmupAtReload |-> FALSE, lrWarmupCycle |-> FALSE,
   lrDecay |-> 0, lrDecayStrategy |-> "epoch+stalled", lrDecayStart |-> <<2, 1>>,
   lrDecayFreq |-> 2, lrDecayInvSqrt |-> << <<0, "">> >>,
   lrDecayResetOptimizer |-> FALSE, lrDecayRepeatWarmup |-> FALSE,
   throwOnDivergence |-> <<>>,
   noRestoreCorpus |-> FALSE, validResetStalled |-> FALSE,
   validResetAll |-> FALSE,
   miniBatchWarmup |-> <<0, "">>, miniBatchTrackLR |-> FALSE]

Loss(l) == [loss |-> l, count |-> One]
NoRemote == [loss |-> 0, count |-> 0]

-----------------------------------------------------------------------------
(* The stop decision: every stopping criterion, alone and combined *)

StopBase == [BaseOptions EXCEPT !.validFreq = <<1, "u">>, !.validMetrics = 0]

StopOptions ==
  { StopBase,
    [StopBase EXCEPT !.afterEpochs = 2],
    [StopBase EXCEPT !.afterBatches = 3],
    [StopBase EXCEPT !.after = << <<2, "e">>, <<4, "t">> >>],
    [StopBase EXCEPT !.after = << <<2, "u">> >>],
    [StopBase EXCEPT !.earlyStopping = 2, !.earlyStoppingOn = "first",
                     !.validMetrics = 2],
    [StopBase EXCEPT !.earlyStopping = 2, !.earlyStoppingOn = "any",
                     !.validMetrics = 2],
    [StopBase EXCEPT !.earlyStopping = 2, !.earlyStoppingOn = "all",
                     !.validMetrics = 2],
    [StopBase EXCEPT !.tsvStdin = TRUE],
    [StopBase EXCEPT !.logicalEpoch = <<2, "u">>, !.afterEpochs = 1],
    [StopBase EXCEPT !.afterEpochs = 2, !.afterBatches = 3, !.tsvStdin = TRUE,
                     !.earlyStopping = 1, !.earlyStoppingOn = "any",
                     !.validMetrics = 1] }

InitStop == \E o \in StopOptions : InitWith(o, "none")

UpdateStop == Update(Loss(One), NoRemote, 1, 2)

NextStop ==
  \/ AddValidator
  \/ UpdateStop
  \/ IncreaseEpoch
  \/ Validate
  \/ Signal
  \/ KeepGoingCall

SpecStop == InitStop /\ [][NextStop]_vars

-----------------------------------------------------------------------------
(* C1: keepGoing() returns false iff a shutdown signal was received, or
   after-epochs, after-batches or an entry of the `after` list is satisfied, or
   early-stopping > 0 and the aggregated stalled count has reached it, or the
   end of stdin was recorded; in particular it returns false as soon as
   state.batches >= after-batches > 0. *)

C1_LogicalEpoch(n) ==
  LET le == Parse(options.logicalEpoch)
  IN  CASE le.unit = "epochs"    -> state.epochs > n * le.n
        [] le.unit = "trgLabels" -> state.labelsTotal > n * le.n
        [] OTHER                 -> state.batches > n * le.n

C1_AfterSatisfied ==
  \E i \in DOMAIN options.after :
    LET n == options.after[i][1]
        u == options.after[i][2]
    IN  /\ n > 0
        /\ \/ u = "e" /\ C1_LogicalEpoch(n)
           \/ u = "t" /\ state.labelsTotal >= n
           \/ u \notin {"e", "t"} /\ state.batches >= n

C1_StopReason ==
  \/ sigterm
  \/ options.afterEpochs > 0 /\ C1_LogicalEpoch(options.afterEpochs)
  \/ options.afterBatches > 0 /\ state.batches >= options.afterBatches
  \/ C1_AfterSatisfied
  \/ options.earlyStopping > 0 /\ stalled(validators) >= options.earlyStopping
  \/ endOfStdin

C1_KeepGoing ==
  lastCall = "keepGoing" =>
    /\ ret = ~C1_StopReason
    /\ (options.afterBatches > 0 /\ state.batches >= options.afterBatches) => ret = FALSE

\* keepGoing() has just returned false at batches = after-batches, and nothing
\* else asks to stop
C1_Witness ==
  /\ lastCall = "keepGoing"
  /\ ret = FALSE
  /\ options.afterBatches > 0
  /\ state.batches = options.afterBatches
  /\ ~sigterm /\ ~endOfStdin
  /\ options.afterEpochs = 0 /\ options.earlyStopping = 0

-----------------------------------------------------------------------------
(* Validation: cadence, floor, final validation, the three early-stopping-on
   policies, with and without MPI *)

ValidBase == [BaseOptions EXCEPT !.validMetrics = 2]

ValidOptions ==
  { ValidBase,
    [ValidBase EXCEPT !.validFrom = <<2, "u">>, !.validMetrics = 1],
    [ValidBase EXCEPT !.earlyStoppingOn = "any", !.validFreq = <<1, "u">>],
    [ValidBase EXCEPT !.earlyStoppingOn = "all", !.validFreq = <<1, "u">>],
    [ValidBase EXCEPT !.afterBatches = 2, !.validMetrics = 1],
    [ValidBase EXCEPT !.validFreq = <<3, "t">>, !.earlyStopping = 1,
                      !.validMetrics = 1] }

\* without MPI every option set; with MPI the main process and a worker under
\* two policies each
ValidSetups ==
  (ValidOptions \X {"none"})
    \cup ({ValidBase,
           [ValidBase EXCEPT !.earlyStoppingOn = "all", !.validFreq = <<1, "u">>]}
            \X {"main"})
    \cup ({[ValidBase EXCEPT !.earlyStoppingOn = "any", !.validFreq = <<1, "u">>],
           [ValidBase EXCEPT !.earlyStoppingOn = "all", !.validFreq = <<1, "u">>]}
            \X {"worker"})

InitValid == \E setup \in ValidSetups : InitWith(setup[1], setup[2])

UpdateValid == Update(Loss(One), NoRemote, 1, 2)

NextValid ==
  \/ AddValidator
  \/ UpdateValid
  \/ Validate
  \/ Signal
  \/ SetFinal
  \/ ValidatingCall

SpecValid == InitValid /\ [][NextValid]_vars

C2_Entered ==
  LET p == Parse(options.validFreq)
  IN  \/ p.n = 0
      \/ getProgressIn(state, p.unit) \div p.n
           # getPreviousProgressIn(state, p.unit) \div p.n

C2_AboveFloor ==
  LET p == Parse(options.validFrom)
  IN  getProgressIn(state, p.unit) > p.n

(* C2 (as stated): validating() returns true iff a validator is registered, the
   valid-freq period has just been entered or this is an unconditional final
   validation, progress exceeds valid-from, and keepGoing() is still true. *)
C2_ValidatingOrFinal ==
  lastCall = "validating" =>
    ret = (/\ Len(validators) > 0
           /\ (C2_Entered \/ isFinal)
           /\ C2_AboveFloor
           /\ ~C1_StopReason)

(* C2 (amended): validating() returns true iff a validator is registered, the
   valid-freq period has just been entered, progress exceeds valid-from, and
   keepGoing() is still true; a final validation makes no difference to it. *)
C2_Validating ==
  lastCall = "validating" =>
    ret = (/\ Len(validators) > 0
           /\ C2_Entered
           /\ C2_AboveFloor
           /\ ~C1_StopReason)

\* validating() has returned true above a valid-from floor of 2 updates
C2_Witness ==
  /\ lastCall = "validating"
  /\ ret = TRUE
  /\ options.validFrom[1] = 2
  /\ state.batches = 4
  /\ Len(validators) = 1

(* C3: validate() handles the registered validators at most once between two
   update() calls: a call is a no-op when the state is marked validated or a
   shutdown signal is pending, even with isFinal; otherwise, when the valid-freq
   period was entered or isFinal holds, every validator is handled exactly once
   (computed unless this is an MPI worker, which receives the result) and the
   state stays marked validated until the next update(). *)
C3_ValidateOnce ==
  [][/\ \A i \in DOMAIN validators' : validators'[i].runs <= 1
     /\ (lastCall' = "validate" /\ (state.validated \/ sigterm))
          => (state' = state /\ validators' = validators)
     /\ (lastCall' = "validate" /\ ~state.validated /\ ~sigterm
           /\ (C2_Entered \/ isFinal))
          => /\ state'.validated
             /\ \A i \in DOMAIN validators :
                  /\ validators'[i].runs = validators[i].runs + 1
                  /\ validators'[i].computed
                       = validators[i].computed + (IF mpi = "worker" THEN 0 ELSE 1)
     /\ (state.validated /\ lastCall' # "update") => state'.validated
     /\ lastCall' = "update" => ~state'.validated
    ]_vars

\* a final validate() was skipped because the validators had already run in
\* this cycle
C3_Witness ==
  /\ lastCall = "validate"
  /\ hist.outcome = "skipped"
  /\ isFinal
  /\ ~sigterm
  /\ state.validated
  /\ Len(validators) = 2
  /\ \A i \in DOMAIN validators : validators[i].runs = 1

C4_Emitted == state'.stallEvents - state.stallEvents

C4_Largest(vs) ==
  IF Len(vs) = 0 THEN 0
  ELSE CHOOSE m \in {vs[i].stalled : i \in DOMAIN vs} :
         \A i \in DOMAIN vs : vs[i].stalled <= m

C4_Smallest(vs) ==
  IF Len(vs) = 0 THEN 0
  ELSE CHOOSE m \in {vs[i].stalled : i \in DOMAIN vs} :
         \A i \in DOMAIN vs : vs[i].stalled >= m

C4_ByPolicy(vs) ==
  CASE options.earlyStoppingOn = "any" -> C4_Largest(vs)
    [] options.earlyStoppingOn = "all" -> C4_Smallest(vs)
    [] OTHER -> IF Len(vs) = 0 THEN 0 ELSE vs[1].stalled

(* C4 (as stated): after validate() has run the validators, exactly one stall
   event is emitted iff the largest stalled count across the validators grew,
   whatever early-stopping-on says; otherwise none. *)
C4_StallEventOnLargest ==
  [][(lastCall' = "validate" /\ hist'.outcome = "ran") =>
       C4_Emitted = (IF C4_Largest(validators') > C4_Largest(validators)
                     THEN 1 ELSE 0)]_vars

(* C4 (amended): after validate() has run the validators, exactly one stall
   event is emitted iff the stalled count aggregated by early-stopping-on (the
   largest for any, the smallest for all, the first validator's for first)
   grew; otherwise none. *)
C4_StallEvent ==
  [][(lastCall' = "validate" /\ hist'.outcome = "ran") =>
       C4_Emitted = (IF C4_ByPolicy(validators') > C4_ByPolicy(validators)
                     THEN 1 ELSE 0)]_vars

\* under early-stopping-on first the second validator has stalled, the
\* largest count has grown, and no stall event was ever emitted
C4_Witness ==
  /\ lastCall = "validate"
  /\ hist.outcome = "ran"
  /\ options.earlyStoppingOn = "first"
  /\ Len(validators) = 2
  /\ validators[1].stalled = 0
  /\ validators[2].stalled = 1
  /\ state.stallEvents = 0

-----------------------------------------------------------------------------
(* Stall aggregation as a function of the validators' stalled counts *)

MaxCount == 7

StalledOptions ==
  { [BaseOptions EXCEPT !.earlyStoppingOn = on] : on \in {"first", "any", "all"} }

\* validators that found their best score once and have stalled since
StalledValidators ==
  UNION { { [i \in 1..n |-> [NewValidator(i) EXCEPT !.stalled = counts[i],
                                                    !.lastBest = 1]] :
              counts \in [1..n -> 0..MaxCount] } : n \in 0..MaxValidators }

InitStalled ==
  \E o \in StalledOptions : \E vs \in StalledValidators : InitValidated(o, vs)

NextStalled ==
  \/ StalledCall
  \/ Stalled1stCall
  \/ StalledMaxCall
  \/ StalledMinCall

SpecStalled == InitStalled /\ [][NextStalled]_vars

(* C5: stalled() aggregates the validators' stalled counts by early-stopping-on:
   any gives the largest, all the smallest, first the count of validator 0
   (counts 3 and 7 give 7, 3, 3); stalledMin <= stalled1st <= stalledMax, and
   all three are 0 when no validator is registered. *)
C5_Stalled ==
  /\ lastCall = "stalled" => hist.value = C4_ByPolicy(validators)
  /\ lastCall = "stalledMax" => hist.value = C4_Largest(validators)
  /\ lastCall = "stalledMin" => hist.value = C4_Smallest(validators)
  /\ lastCall = "stalled1st"
       => hist.value = (IF Len(validators) = 0 THEN 0 ELSE validators[1].stalled)
  /\ stalledMin(validators) <= stalled1st(validators)
  /\ stalled1st(validators) <= stalledMax(validators)
  /\ Len(validators) = 0
       => /\ stalledMin(validators) = 0
          /\ stalled1st(validators) = 0
          /\ stalledMax(validators) = 0
  /\ (/\ lastCall = "stalled"
      /\ Len(validators) = 2
      /\ validators[1].stalled = 3
      /\ validators[2].stalled = 7)
       => hist.value = (IF options.earlyStoppingOn = "any" THEN 7 ELSE 3)

\* stalled() has returned 3 for the counts 3 and 7 under early-stopping-on all
C5_Witness ==
  /\ lastCall = "stalled"
  /\ options.earlyStoppingOn = "all"
  /\ Len(validators) = 2
  /\ validators[1].stalled = 3
  /\ validators[2].stalled = 7
  /\ hist.value = 3

-----------------------------------------------------------------------------
(* Cadences: save, sync and smoothing periods in updates and in target labels,
   with batches of 1 to MaxLabels labels *)

MaxLabels == 3

Smoothing == One \div 10

SaveOptions ==
  { BaseOptions,
    [BaseOptions EXCEPT !.saveFreq = <<2, "t">>],
    [BaseOptions EXCEPT !.saveFreq = <<3, "t">>, !.saveFrom = <<2, "u">>],
    [BaseOptions EXCEPT !.syncFreq = <<3, "u">>,
                        !.exponentialSmoothing = Smoothing,
                        !.exponentialSmoothingReplaceFreq = <<2, "t">>],
    [BaseOptions EXCEPT !.saveFreq = <<0, "">>,
                        !.exponentialSmoothingReplaceFreq = <<2, "u">>] }

InitSave == \E o \in SaveOptions : InitWith(o, "none")

UpdateSave == \E labels \in 1..MaxLabels : Update(Loss(One), NoRemote, 1, labels)

NextSave ==
  \/ UpdateSave
  \/ SavingCall
  \/ SyncingCall
  \/ ReplacingWithSmoothedCall

SpecSave == InitSave /\ [][NextSave]_vars

C6_Period == Parse(options.saveFreq)

C6_Progress(s) == getProgressIn(s, C6_Period.unit)

C6_Boundaries(s) == C6_Progress(s) \div C6_Period.n

(* C6 (as stated): for a period n > 0 the number of update()s after which
   entered-new-period-of(n) is true equals floor(final/n) - floor(initial/n),
   whatever the per-batch label counts; progress starts at 0. *)
C6_OncePerBoundary ==
  C6_Period.n > 0 => hist.entered = C6_Boundaries(state)

(* C6 (amended): for a period n > 0, entered-new-period-of(n) is true after an
   update() iff that update moved progress to or across at least one multiple
   of n, so it fires at most once per update: the number of such updates is at
   most floor(final/n) - floor(initial/n), and equal to it when no single
   update advances progress by more than n. *)
C6_OncePerCrossingUpdate ==
  [][C6_Period.n > 0 =>
       /\ hist'.entered - hist.entered
            = (IF C6_Boundaries(state') > C6_Boundaries(state) THEN 1 ELSE 0)
       /\ hist'.entered <= C6_Boundaries(state')
       /\ (C6_Period.unit = "updates" \/ hist'.maxLabels <= C6_Period.n)
            => hist'.entered = C6_Boundaries(state')
    ]_vars

\* an update() of 3 labels has crossed two boundaries of a period of 2 labels
C6_Witness ==
  /\ lastCall = "update"
  /\ options.saveFreq = <<2, "t">>
  /\ state.labelsTotal - state.prevLabelsTotal = 3
  /\ state.labelsTotal \div 2 = state.prevLabelsTotal \div 2 + 2
  /\ hist.entered < state.labelsTotal \div 2

C7_Entered(text) ==
  LET p == Parse(text)
  IN  \/ p.n = 0
      \/ getProgressIn(state, p.unit) \div p.n
           # getPreviousProgressIn(state, p.unit) \div p.n

C7_Above(text) ==
  LET p == Parse(text) IN getProgressIn(state, p.unit) > p.n

(* C7: saving(), syncing() and replacingWithSmoothed() leave the Training State
   and the Scheduler unchanged and return the period-membership result for
   their own frequency (saving() also needs progress above save-from,
   replacingWithSmoothed() is false when exponential-smoothing is 0); a call
   repeated with no update() in between returns what it returned before. *)
C7_PureQueries ==
  [][lastCall' \in CadenceQueries =>
       /\ UNCHANGED <<pool, peer, progressYml, options, mpi, state, validators, first, endOfStdin,
                      sigterm, isFinal>>
       /\ lastCall' = "saving"
            => ret' = (C7_Entered(options.saveFreq) /\ C7_Above(options.saveFrom))
       /\ lastCall' = "syncing" => ret' = C7_Entered(options.syncFreq)
       /\ lastCall' = "replacingWithSmoothed"
            => ret' = (/\ options.exponentialSmoothing # 0
                       /\ C7_Entered(options.exponentialSmoothingReplaceFreq))
       /\ hist.answers[lastCall'] # "none"
            => ret' = (hist.answers[lastCall'] = "true")
    ]_vars

\* after one update() all three queries have answered, saving() last
C7_Witness ==
  /\ lastCall = "saving"
  /\ ret = TRUE
  /\ hist.answers["saving"] = "true"
  /\ hist.answers["syncing"] = "false"
  /\ hist.answers["replacingWithSmoothed"] = "true"
  /\ options.exponentialSmoothing # 0

-----------------------------------------------------------------------------
(* Learning rate: warm-up, its restarts, and decay *)

Half == One \div 2

Quarter == One \div 4

WarmupBase == [BaseOptions EXCEPT !.lrWarmup = <<2, "u">>, !.validMetrics = 0]

LROptions ==
  { [BaseOptions EXCEPT !.lrWarmup = <<4, "u">>, !.validMetrics = 1],
    [WarmupBase EXCEPT !.lrWarmupCycle = TRUE],
    [WarmupBase EXCEPT !.lrWarmupAtReload = TRUE, !.lrWarmupStartRate = Quarter],
    [WarmupBase EXCEPT !.lrDecay = Half, !.lrDecayStrategy = "batches",
                       !.lrDecayStart = <<2, 1>>, !.lrDecayFreq = 2,
                       !.lrDecayRepeatWarmup = TRUE],
    [WarmupBase EXCEPT !.lrDecay = Half, !.lrDecayStrategy = "epoch",
                       !.lrDecayStart = <<2, 1>>, !.lrWarmupStartRate = Quarter],
    [WarmupBase EXCEPT !.lrDecay = Half, !.lrDecayStrategy = "stalled",
                       !.lrDecayStart = <<1, 1>>, !.validFreq = <<1, "u">>,
                       !.lrDecayResetOptimizer = TRUE,
                       !.validMetrics = 2],
    [BaseOptions EXCEPT !.lrDecayInvSqrt = << <<1, "u">> >>, !.validMetrics = 0],
    [BaseOptions EXCEPT !.lrWarmup = <<3, "u">>, !.validMetrics = 0,
                        !.lrDecayInvSqrt = << <<2, "u">>, <<1, "u">> >>] }

InitLR == \E o \in LROptions : InitWith(o, "none")

UpdateLR == Update(Loss(One), NoRemote, 1, 2)

NextLR ==
  \/ AddValidator
  \/ UpdateLR
  \/ IncreaseEpoch
  \/ Validate

SpecLR == InitLR /\ [][NextLR]_vars

\* the learning rate the claims give for a state: warm-up ramp from the start
\* rate, times the scheduled decay, times state.factor
C8_Ramp(s) ==
  LET w == Parse(options.lrWarmup)
  IN  IF w.n > 0
      THEN Min(One, FDiv(getProgressIn(s, w.unit) - s.warmupStart.n, w.n))
      ELSE One

C8_Eta(s) ==
  FMul(FMul(options.lrWarmupStartRate
              + FMul(options.learnRate - options.lrWarmupStartRate, C8_Ramp(s)),
            getScheduledLRDecayFactor(s)),
       s.factor)

(* C8 (as stated): after construction and after every update() state.eta is
   the function of the current state (start-rate + (learn-rate - start-rate) *
   min(1, (progress - warmupStart)/W)) * scheduled-decay * state.factor; with a
   warm-up of 4 updates from 0 to learn-rate 1 and no decay, eta is 0.5 after 2
   updates and 1 after 4 (the claim's 100u scenario, scaled). *)
C8_EtaOfCurrentState ==
  (lastCall \in {"Scheduler", "update"} /\ Running /\ hist.outcome = "ok") =>
    /\ state.eta = C8_Eta(state)
    /\ (options.lrWarmup = <<4, "u">> /\ state.batches = 2) => state.eta = Half
    /\ (options.lrWarmup = <<4, "u">> /\ state.batches >= 4) => state.eta = One

(* C9 (as stated): in every reachable state, whenever progress in the
   lr-warmup unit equals state.warmupStart (at construction and right after a
   warm-up restart), state.eta is lr-warmup-start-rate; and whenever progress
   >= warmupStart + window, eta is base-rate * decay * state.factor. *)
C9_ContinuousAtBoundary ==
  LET w == Parse(options.lrWarmup)
      progress == getProgressIn(state, w.unit)
  IN  (Running /\ w.n > 0) =>
        /\ progress = state.warmupStart.n
             => state.eta = options.lrWarmupStartRate
        /\ progress >= state.warmupStart.n + w.n
             => state.eta = FMul(FMul(options.learnRate,
                                      getScheduledLRDecayFactor(state)),
                                 state.factor)

-----------------------------------------------------------------------------
(* Divergence detection: slow window, fast window, tolerance and throw-after,
   with finite and non-finite losses *)

DivergenceOptions ==
  { [BaseOptions EXCEPT !.throwOnDivergence =
       << <<3, "">>, <<1, "">>, <<Half, "">> >>],
    [BaseOptions EXCEPT !.throwOnDivergence =
       << <<2, "">>, <<1, "">>, <<One, "">> >>],
    [BaseOptions EXCEPT !.throwOnDivergence =
       << <<2, "">>, <<1, "">>, <<Half, "">>, <<3, "u">> >>],
    BaseOptions }

Losses == {NaN, One, 2 * One, 4 * One}

InitDivergence == \E o \in DivergenceOptions : InitWith(o, "none")

UpdateDivergence == \E l \in Losses : Update(Loss(l), NoRemote, 1, 2)

NextDivergence ==
  \/ UpdateDivergence
  \/ KeepGoingCall

SpecDivergence == InitDivergence /\ [][NextDivergence]_vars

\* the step is an update() whose normalized loss was finite: the detector
\* threw or folded the loss into its statistics
C10_FiniteUpdate ==
  /\ lastCall' = "update"
  /\ throwOnDivergence
  /\ \/ hist'.outcome \in {"divergence", "diagnostic"}
     \/ state'.observations = state.observations + 1

\* delta and sigma as the update finds them
C10_Delta ==
  IF state.lossAvgSlow = 0 THEN 0 ELSE state.lossAvgFast - state.lossAvgSlow

C10_Sigma ==
  IF state.lossAvgSlow = 0 THEN 0 ELSE FSqrt(state.lossVarSlow)

C10_Exceeds ==
  /\ C10_Delta > 0
  /\ C10_Sigma > 0
  /\ FDiv(C10_Delta, C10_Sigma) > divergenceTolerance

(* C10 (as stated): with divergence detection enabled, an update() with a
   finite normalized loss raises the divergence error iff at least
   lossAvgWindowSlow observations have accumulated and delta > 0, sigma > 0
   and delta/sigma exceeds the tolerance. *)
C10_RaisedAfterWindowOfObservations ==
  [][C10_FiniteUpdate =>
       (hist'.outcome = "divergence"
          <=> (state.observations >= lossAvgWindowSlow /\ C10_Exceeds))]_vars

-----------------------------------------------------------------------------
(* Divergence detection on a stream of one repeated loss, for every slow and
   fast window up to MaxWindow and several tolerances *)

MaxWindow == 2

Tolerances == {0, Half, One}

ConstantOptions ==
  { [BaseOptions EXCEPT !.throwOnDivergence =
       << <<slow, "">>, <<fast, "">>, <<tolerance, "">> >>] :
      slow \in 0..MaxWindow, fast \in 0..MaxWindow, tolerance \in Tolerances }
  \cup
  { [BaseOptions EXCEPT !.throwOnDivergence =
       << <<2, "">>, <<1, "">>, <<Half, "">>, <<3, "u">> >>] }

FiniteLosses == {0, One, 4 * One}

InitConstant == \E o \in ConstantOptions : InitWith(o, "none")

UpdateConstant ==
  \E l \in FiniteLosses :
    /\ state.batches = 0 \/ l = hist.lastLoss
    /\ Update(Loss(l), NoRemote, 1, 2)

NextConstant ==
  \/ UpdateConstant
  \/ KeepGoingCall

SpecConstant == InitConstant /\ [][NextConstant]_vars

(* C11: a stream of updates that all have the same normalized loss never
   makes the detector raise the divergence error, whatever the slow window,
   the fast window and the tolerance; without a throw-after mark update()
   raises nothing at all (a configured throw-after mark raises its diagnostic
   error regardless of the losses). *)
C11_ConstantNeverDiverges ==
  hist.sameLoss =>
    /\ hist.outcome # "divergence"
    /\ throwAfter.n = 0 => hist.outcome # "diagnostic"
    /\ state.lossVarSlow = 0
    /\ state.lossAvgFast = state.lossAvgSlow

\* four updates of loss 4 have passed a detector with slow window 2, fast
\* window 1 and tolerance 0
C11_Witness ==
  /\ lastCall = "update"
  /\ hist.sameLoss
  /\ hist.lastLoss = 4 * One
  /\ state.batches = 4
  /\ state.observations = 4
  /\ lossAvgWindowSlow = 2
  /\ lossAvgWindowFast = 1
  /\ divergenceTolerance = 0
  /\ hist.outcome = "ok"

(* C12: an update() whose normalized loss is not finite leaves lossAvgSlow,
   lossAvgFast and lossVarSlow as they were and raises no divergence error,
   whatever the updates before it were. *)
C12_NonFiniteIgnored ==
  [][(/\ lastCall' = "update"
      /\ state'.batches = state.batches + 1
      /\ hist'.lastLoss = NaN)
       => /\ state'.lossAvgSlow = state.lossAvgSlow
          /\ state'.lossAvgFast = state.lossAvgFast
          /\ state'.lossVarSlow = state.lossVarSlow
          /\ hist'.outcome \notin {"divergence", "diagnostic"}]_vars

\* a non-finite loss has been given to a detector that is past its slow
\* window and holds a positive variance
C12_Witness ==
  /\ lastCall = "update"
  /\ hist.lastLoss = NaN
  /\ Len(options.throwOnDivergence) > 0
  /\ state.batches > lossAvgWindowSlow
  /\ state.lossVarSlow > 0
  /\ state.lossAvgFast > state.lossAvgSlow
  /\ hist.outcome = "ok"

(* C13: when throw-on-divergence is not configured, no sequence of update()
   calls raises a divergence error, and lossAvgSlow, lossAvgFast and
   lossVarSlow keep the value 0 they were constructed with. *)
C13_DisabledByDefault ==
  Len(options.throwOnDivergence) = 0 =>
    /\ hist.outcome \notin {"divergence", "diagnostic"}
    /\ state.lossAvgSlow = 0
    /\ state.lossAvgFast = 0
    /\ state.lossVarSlow = 0

\* four updates have ended, the last one with loss 4, and nothing is
\* configured
C13_Witness ==
  /\ Len(options.throwOnDivergence) = 0
  /\ lastCall = "update"
  /\ state.batches = 4
  /\ hist.lastLoss = 4 * One
  /\ ~hist.sameLoss
  /\ hist.outcome = "ok"

-----------------------------------------------------------------------------
(* Persistence: save(), the end of the process, and load() on the Scheduler
   of the next process *)

PersistBase ==
  [BaseOptions EXCEPT !.validMetrics = 1, !.validFreq = <<1, "u">>,
                      !.lrWarmup = <<2, "u">>, !.lrDecay = Half,
                      !.lrDecayStrategy = "batches", !.lrDecayStart = <<2, 1>>,
                      !.lrDecayFreq = 2]

PersistOptions ==
  { PersistBase,
    [PersistBase EXCEPT !.noRestoreCorpus = TRUE],
    [PersistBase EXCEPT !.validResetStalled = TRUE],
    [PersistBase EXCEPT !.validResetAll = TRUE] }

Roles == {"none", "main", "worker"}

InitPersist == \E o \in PersistOptions, role \in Roles : InitWith(o, role)

MaxSavedBatches == 2

UpdatePersist ==
  /\ state.batches < MaxSavedBatches
  /\ Update(Loss(One), NoRemote, 1, 2)

NextPersist ==
  \/ AddValidator
  \/ Load
  \/ UpdatePersist
  \/ IncreaseEpoch
  \/ Validate
  \/ Save
  \/ Restart

SpecPersist == InitPersist /\ [][NextPersist]_vars

\* the counters of a TrainingState
C14_Counters(s) ==
  <<s.epochs, s.batches, s.samplesEpoch, s.samplesDisp, s.updatesDisp,
    s.wordsDisp, s.labelsTotal>>

\* load() has returned on a Scheduler constructed after a save()
C14_Loaded ==
  /\ lastCall = "load"
  /\ Len(hist.saved) > 0

\* the loaded state has what the saved one had
C14_Reproduced ==
  /\ hist.outcome = "ok"
  /\ C14_Counters(state) = C14_Counters(hist.saved[1])
  /\ state.eta = hist.saved[1].eta
  /\ state.validators = hist.saved[1].validators

(* C14: saving the TrainingState and loading it on a newly constructed
   Scheduler yields the same counters, the same eta and the same map of
   stalled counts and last-best scores of the validators. *)
C14_RoundTrip == C14_Loaded => C14_Reproduced

\* the round trip on a Scheduler that has a reducer and none of the options
\* that ask for a reset at load
C14_RoundTripKept ==
  (/\ C14_Loaded
   /\ mpi # "none"
   /\ ~options.noRestoreCorpus
   /\ ~options.validResetStalled
   /\ ~options.validResetAll) => C14_Reproduced

(* C15: load() without a progress file is a fresh start: it completes and
   leaves every counter of the TrainingState as constructed, on the main
   process, on every other worker, and on a Scheduler without a reducer. *)
C15_MissingFileIsFreshStart ==
  (lastCall = "load" /\ Len(progressYml) = 0) =>
     /\ hist.outcome = "ok"
     /\ C14_Counters(state)
          = C14_Counters(NewTrainingState(options.learnRate))

\* the same on the Schedulers that have a reducer
C15_WithReducer == mpi # "none" => C15_MissingFileIsFreshStart

-----------------------------------------------------------------------------
(* The dynamic mini-batch size: the warm-up ramp in each unit, and the
   tracking of the learning rate *)

MBBase == [BaseOptions EXCEPT !.validMetrics = 0]

MBOptions ==
  { [MBBase EXCEPT !.miniBatchWarmup = <<2, "u">>],
    [MBBase EXCEPT !.miniBatchWarmup = <<4, "u">>],
    [MBBase EXCEPT !.miniBatchWarmup = <<3, "t">>],
    [MBBase EXCEPT !.miniBatchWarmup = <<5, "t">>],
    [MBBase EXCEPT !.miniBatchWarmup = <<2, "e">>],
    [MBBase EXCEPT !.miniBatchWarmup = <<1, "e">>],
    [MBBase EXCEPT !.miniBatchTrackLR = TRUE,
                   !.lrDecayInvSqrt = << <<1, "u">> >>],
    [MBBase EXCEPT !.miniBatchTrackLR = TRUE, !.miniBatchWarmup = <<2, "u">>,
                   !.lrDecay = Half, !.lrDecayStrategy = "batches",
                   !.lrDecayStart = <<2, 1>>, !.lrDecayFreq = 1] }

InitMB == \E o \in MBOptions : InitWith(o, "none")

UpdateMB == \E batchLabels \in 1..2 : Update(Loss(One), NoRemote, 1, batchLabels)

NextMB ==
  \/ UpdateMB
  \/ IncreaseEpoch
  \/ GetDynamicMBSizeMultiplierCall

SpecMB == InitMB /\ [][NextMB]_vars

\* what the claim says of the multiplier in state s
C16_RampIn(s) ==
  LET W == Parse(options.miniBatchWarmup)
      progress == getProgressIn(s, W.unit)
      m == getDynamicMBSizeMultiplier(s).value
  IN  /\ progress = 0 => m < One
      /\ progress < W.n => m < One
      /\ progress >= W.n => m = One
      /\ m <= One
      /\ m = Min(One, IF W.unit = "trgLabels"
                      THEN FSqrt(FDiv(progress, W.n))
                      ELSE FDiv(progress, W.n))

(* C16: with a mini-batch-warmup of W > 0 and without mini-batch-track-lr the
   multiplier is below 1 at progress 0, does not decrease as the run
   progresses, is below 1 while progress < W, is exactly 1 from progress W
   on and never above 1; in target labels it is the square root of
   progress / W, in the other units progress / W. *)
C16_WarmupRamp ==
  [][(Parse(options.miniBatchWarmup).n > 0 /\ ~options.miniBatchTrackLR) =>
       /\ C16_RampIn(state)
       /\ C16_RampIn(state')
       /\ getDynamicMBSizeMultiplier(state').value
            >= getDynamicMBSizeMultiplier(state).value
       /\ lastCall' = "getDynamicMBSizeMultiplier" =>
            /\ hist'.outcome = "ok"
            /\ hist'.value = getDynamicMBSizeMultiplier(state).value]_vars

\* the call has returned a multiplier strictly between the linear ratio and 1
\* during a warm-up counted in target labels
C16_Witness ==
  /\ lastCall = "getDynamicMBSizeMultiplier"
  /\ Parse(options.miniBatchWarmup).unit = "trgLabels"
  /\ ~options.miniBatchTrackLR
  /\ state.labelsTotal < Parse(options.miniBatchWarmup).n
  /\ hist.value > FDiv(state.labelsTotal, Parse(options.miniBatchWarmup).n)
  /\ hist.value < One

\* a call of getDynamicMBSizeMultiplier() with mini-batch-track-lr has ended
C17_TrackingCall ==
  /\ lastCall = "getDynamicMBSizeMultiplier"
  /\ options.miniBatchTrackLR

(* C17: with mini-batch-track-lr, getDynamicMBSizeMultiplier() returns the
   warm-up ratio divided by the product of the scheduled decay factor and
   state.factor. *)
C17_TracksLearningRate ==
  C17_TrackingCall =>
    /\ hist.outcome = "ok"
    /\ hist.value = FDiv(MBWarmupRatio(state),
                         FMul(getScheduledLRDecayFactor(state), state.factor))

(* C17, as the code has it: with mini-batch-track-lr every call of
   getDynamicMBSizeMultiplier() ends the process with "Please review this
   code" and returns no multiplier. *)
C17_TrackingAborts ==
  C17_TrackingCall => (hist.outcome = "aborted" /\ state.aborted)

\* the call was made after the learning rate had been decayed
C17_Witness ==
  /\ C17_TrackingCall
  /\ state.factor < One
  /\ state.batches > 0
  /\ hist.outcome = "aborted"

-----------------------------------------------------------------------------
(* Enumerated options: early-stopping-on and lr-decay-strategy with values
   inside and outside their lists *)

EnumBase ==
  [BaseOptions EXCEPT !.validFreq = <<1, "u">>, !.validMetrics = 2,
                      !.earlyStopping = 2, !.lrDecay = Half,
                      !.lrDecayStart = <<1, 1>>, !.lrDecayFreq = 1]

StopOnValues == {"first", "any", "all"}

StrategyValues == {"epoch", "epoch+batches", "epoch+stalled", "batches", "stalled"}

EnumOptions ==
  { [EnumBase EXCEPT !.earlyStoppingOn = "any", !.lrDecayStrategy = "epoch"],
    [EnumBase EXCEPT !.earlyStoppingOn = "all", !.lrDecayStrategy = "stalled"],
    [EnumBase EXCEPT !.earlyStoppingOn = "first", !.lrDecayStrategy = "batches"],
    [EnumBase EXCEPT !.earlyStoppingOn = "none", !.lrDecayStrategy = "epoch"],
    [EnumBase EXCEPT !.earlyStoppingOn = "any", !.lrDecayStrategy = "epochs"] }

InitEnum == \E o \in EnumOptions : InitWith(o, "none")

UpdateEnum == Update(Loss(One), NoRemote, 1, 2)

NextEnum ==
  \/ AddValidator
  \/ UpdateEnum
  \/ IncreaseEpoch
  \/ Validate
  \/ StalledCall
  \/ KeepGoingCall

SpecEnum == InitEnum /\ [][NextEnum]_vars

\* a method that reads early-stopping-on or lr-decay-strategy has returned
C18_Consulted ==
  lastCall \in {"update", "increaseEpoch", "validate", "stalled", "keepGoing"}

(* C18: an lr-decay-strategy outside its five values, or an
   early-stopping-on outside first/any/all, is a fatal configuration error:
   the run is ended by the first method that reads the option, and the value
   is never taken for another one or for "no decay". *)
C18_UnknownIsFatal ==
  (/\ C18_Consulted
   /\ \/ options.earlyStoppingOn \notin StopOnValues
      \/ options.lrDecayStrategy \notin StrategyValues)
    => state.aborted

\* what the run does instead: stalled() answers as with "first" ...
C18_SilentlyFirst ==
  (lastCall = "stalled" /\ options.earlyStoppingOn \notin StopOnValues)
    => (hist.outcome = "ok" /\ hist.value = stalled1st(validators))

\* ... and no event decays the learning rate
C18_SilentlyNoDecay ==
  options.lrDecayStrategy \notin StrategyValues
    => (~state.aborted /\ state.factor = One)

\* no value, inside or outside the lists, ends a run of this specification
C18_KnownNeverFatal == ~state.aborted

-----------------------------------------------------------------------------
(* Units: the two arguments of lr-decay-inv-sqrt, and lr-warmup against
   state.warmupStart *)

Params == {<<0, "u">>, <<0, "t">>, <<1, "u">>, <<2, "t">>, <<1, "e">>}

UnitsBase == [BaseOptions EXCEPT !.validMetrics = 0, !.lrWarmupCycle = TRUE]

UnitsOptions ==
  { [UnitsBase EXCEPT !.lrDecayInvSqrt = <<scale, start>>, !.lrWarmup = warmup] :
      scale \in Params, start \in Params, warmup \in {<<0, "">>, <<2, "t">>} }
  \cup
  { [UnitsBase EXCEPT !.lrDecayInvSqrt = <<scale>>, !.lrWarmup = warmup] :
      scale \in Params, warmup \in {<<2, "u">>, <<1, "e">>} }

InitUnits == \E o \in UnitsOptions : InitWith(o, "none")

UpdateUnits == \E batchLabels \in 1..2 : Update(Loss(One), NoRemote, 1, batchLabels)

NextUnits ==
  \/ UpdateUnits
  \/ IncreaseEpoch

SpecUnits == InitUnits /\ [][NextUnits]_vars

\* lr-decay-inv-sqrt has two arguments and their units differ
C19_DecayUnitsDiffer ==
  /\ Len(options.lrDecayInvSqrt) = 2
  /\ Parse(options.lrDecayInvSqrt[1]).unit # Parse(options.lrDecayInvSqrt[2]).unit

\* lr-warmup is set and state.warmupStart has another unit
C19_WarmupUnitsDiffer ==
  /\ Parse(options.lrWarmup).n > 0
  /\ state.warmupStart.unit # Parse(options.lrWarmup).unit

(* C19: two lr-decay-inv-sqrt arguments of different units make the
   computation of the learning rate fatal, whatever their counts, a decay
   start of count 0 included. *)
C19_DifferentUnitsFatal == C19_DecayUnitsDiffer => state.aborted

\* the decay start is set and of another unit: the constructor's computation
\* of the learning rate has ended the run
C19_SetDecayStartFatal ==
  (C19_DecayUnitsDiffer /\ Parse(options.lrDecayInvSqrt[2]).n > 0)
    => state.aborted

\* the decay start has count 0: its unit is not looked at
C19_UnsetDecayStartAccepted ==
  (/\ C19_DecayUnitsDiffer
   /\ Parse(options.lrDecayInvSqrt[2]).n = 0
   /\ lastCall = "Scheduler") => ~state.aborted

\* a warmupStart that is set and of another unit than lr-warmup: the next
\* computation of the learning rate ends the run
C19_SetWarmupStartFatal ==
  (/\ C19_WarmupUnitsDiffer
   /\ state.warmupStart.n > 0
   /\ lastCall' \in {"update", "increaseEpoch"}) => state'.aborted

\* a warmupStart of count 0: its unit is not looked at
C19_UnsetWarmupStartAccepted ==
  (/\ C19_WarmupUnitsDiffer
   /\ state.warmupStart.n = 0
   /\ ~ScheduledLRDecayAborts
   /\ lastCall' \in {"update", "increaseEpoch"}) => ~state'.aborted

(* C19, as the code has it: different units are fatal when the second mark
   is set (count above 0): a decay start of a positive count whose unit is
   not the scale's, a warmupStart of a positive count whose unit is not
   lr-warmup's.  A mark of count 0 is unset and is accepted whatever its
   unit. *)
C19_UnitsOfSetMarksChecked ==
  /\ [](C19_SetDecayStartFatal /\ C19_UnsetDecayStartAccepted)
  /\ [][C19_SetWarmupStartFatal /\ C19_UnsetWarmupStartAccepted]_vars

\* an update() was ended by a warmupStart counted in target labels that
\* still has the unit it was constructed with
C19_Witness ==
  /\ lastCall = "update"
  /\ state.aborted
  /\ C19_WarmupUnitsDiffer
  /\ state.warmupStart.n > 0
  /\ ~ScheduledLRDecayAborts

-----------------------------------------------------------------------------
(* Decay strategies: which event decays the learning rate *)

DecayBase ==
  [BaseOptions EXCEPT !.validMetrics = 1, !.validFreq = <<1, "u">>,
                      !.lrDecay = Half, !.lrDecayStart = <<1, 1>>,
                      !.lrDecayFreq = 1]

DecayOptions ==
  { [DecayBase EXCEPT !.lrDecayStrategy = "epoch", !.lrDecayStart = <<2, 1>>],
    [DecayBase EXCEPT !.lrDecayStrategy = "epoch+batches", !.lrDecayStart = <<3, 2>>],
    [DecayBase EXCEPT !.lrDecayStrategy = "epoch+stalled", !.lrDecayStart = <<3, 1>>],
    [DecayBase EXCEPT !.lrDecayStrategy = "batches", !.lrDecayFreq = 2],
    [DecayBase EXCEPT !.lrDecayStrategy = "stalled"],
    [DecayBase EXCEPT !.lrDecayStrategy = "stalled", !.lrDecay = 0] }

InitDecay == \E o \in DecayOptions : InitWith(o, "none")

UpdateDecay == Update(Loss(One), NoRemote, 1, 2)

NextDecay ==
  \/ AddValidator
  \/ UpdateDecay
  \/ IncreaseEpoch
  \/ Validate

SpecDecay == InitDecay /\ [][NextDecay]_vars

\* the one kind of event that the configured strategy lets decay
C20_Kind ==
  CASE options.lrDecayStrategy \in {"epoch", "epoch+batches", "epoch+stalled"}
         -> "epoch end"
    [] options.lrDecayStrategy = "batches" -> "batch end"
    [] options.lrDecayStrategy = "stalled" -> "stall event"
    [] OTHER -> "none"

\* in state s the handlers of the other kinds of event leave state.factor alone
C20_OthersKeepFactor(s) ==
  /\ C20_Kind # "epoch end"   => actAfterEpoch(s).factor = s.factor
  /\ C20_Kind # "batch end"   => actAfterBatches(s).factor = s.factor
  /\ C20_Kind # "stall event" => actAfterStalled(s).factor = s.factor

(* C20: for a fixed configuration at most one kind of event (epoch end,
   batch end, stall event) ever changes state.factor: the handlers of the
   other two kinds leave it unchanged in every state, and a step that changes
   it is the method that raises the event of that one kind. *)
C20_OneKindOfEventDecays ==
  [][/\ C20_OthersKeepFactor(state)
     /\ C20_OthersKeepFactor(state')
     /\ state'.factor # state.factor =>
          lastCall' = CASE C20_Kind = "epoch end" -> "increaseEpoch"
                        [] C20_Kind = "batch end" -> "update"
                        [] OTHER                  -> "validate"]_vars

\* epoch+batches: the batch threshold was passed by update()s that left the
\* factor alone, and the end of the epoch decayed
C20_Witness ==
  /\ options.lrDecayStrategy = "epoch+batches"
  /\ lastCall = "increaseEpoch"
  /\ state.batches >= options.lrDecayStart[2]
  /\ state.epochs < options.lrDecayStart[1]
  /\ state.factor = Half

-----------------------------------------------------------------------------
(* Firings of the decay: what one firing does, and when each strategy fires *)

FiringBase ==
  [BaseOptions EXCEPT !.validMetrics = 1, !.validFreq = <<1, "u">>,
                      !.lrDecay = Half, !.lrDecayStart = <<1, 1>>,
                      !.lrDecayFreq = 1]

FiringOptions ==
  { [FiringBase EXCEPT !.lrDecayStrategy = "epoch", !.lrDecayStart = <<2, 1>>,
                       !.lrDecayResetOptimizer = TRUE,
                       !.lrDecayRepeatWarmup = TRUE, !.lrWarmup = <<2, "u">>],
    [FiringBase EXCEPT !.lrDecayStrategy = "epoch+batches", !.lrDecayStart = <<3, 2>>],
    [FiringBase EXCEPT !.lrDecayStrategy = "epoch+stalled", !.lrDecayStart = <<3, 1>>],
    [FiringBase EXCEPT !.lrDecayStrategy = "batches", !.lrDecayStart = <<2, 1>>,
                       !.lrDecayFreq = 2,
                       !.lrDecayRepeatWarmup = TRUE, !.lrWarmup = <<2, "u">>],
    [FiringBase EXCEPT !.lrDecayStrategy = "batches", !.lrDecay = Quarter],
    [FiringBase EXCEPT !.lrDecayStrategy = "stalled", !.lrDecayStart = <<2, 1>>,
                       !.lrDecayResetOptimizer = TRUE],
    [FiringBase EXCEPT !.lrDecayStrategy = "stalled", !.validMetrics = 2,
                       !.lrDecayRepeatWarmup = TRUE, !.lrWarmup = <<3, "u">>] }

InitFiring == \E o \in FiringOptions : InitWith(o, "none")

UpdateFiring == Update(Loss(One), NoRemote, 1, 2)

NextFiring ==
  \/ AddValidator
  \/ UpdateFiring
  \/ IncreaseEpoch
  \/ Validate

SpecFiring == InitFiring /\ [][NextFiring]_vars

\* lr-decay to the power k, multiplied out as the firings multiply
RECURSIVE C21_Power(_)
C21_Power(k) == IF k = 0 THEN One ELSE FMul(C21_Power(k - 1), options.lrDecay)

\* the step holds one firing, which did what the claim says of a firing
C21_OneFiring ==
  /\ state'.firings = state.firings + 1
  /\ state'.factor = FMul(state.factor, options.lrDecay)
  /\ state'.eta
       = updateLearningRate([state' EXCEPT !.warmupStart = state.warmupStart]).eta
  /\ state'.reset = options.lrDecayResetOptimizer
  /\ options.lrDecayRepeatWarmup =>
       state'.warmupStart.n
         = getProgressIn(state', Parse(options.lrWarmup).unit)

(* C21: state.factor is lr-decay to the power of the number of firings since
   construction; a firing multiplies state.factor by lr-decay once,
   recomputes eta with the new factor, sets state.reset to
   lr-decay-reset-optimizer and, with lr-decay-repeat-warmup, sets
   warmupStart to the current progress in the unit of lr-warmup; a step
   without a firing leaves state.factor as it was. *)
C21_FactorIsPowerOfDecay ==
  [][/\ state.factor = C21_Power(state.firings)
     /\ state'.factor = C21_Power(state'.firings)
     /\ IF state'.firings = state.firings
        THEN state'.factor = state.factor
        ELSE C21_OneFiring]_vars

\* two firings have happened; the last one asked for the optimizer's reset
\* and restarted the warm-up at the current progress
C21_Witness ==
  /\ state.firings = 2
  /\ state.factor = Quarter
  /\ state.reset
  /\ options.lrDecayRepeatWarmup
  /\ state.warmupStart.n = state.batches
  /\ state.warmupStart.n > 0

\* the step is an increaseEpoch() under one of the epoch strategies
C22_EpochEnd ==
  /\ lastCall' = "increaseEpoch"
  /\ state'.epochs = state.epochs + 1
  /\ ~state'.aborted
  /\ options.lrDecay > 0
  /\ options.lrDecayStrategy \in {"epoch", "epoch+batches", "epoch+stalled"}

C22_Fired == state'.firings = state.firings + 1

C22_EpochReached(s) ==
  options.lrDecayStart[1] > 0 /\ s.epochs >= options.lrDecayStart[1]

C22_SecondReached(s) ==
  /\ options.lrDecayStart[2] > 0
  /\ \/ options.lrDecayStrategy = "epoch+batches"
        /\ s.batches >= options.lrDecayStart[2]
     \/ options.lrDecayStrategy = "epoch+stalled"
        /\ s.maxStalled >= options.lrDecayStart[2]

(* C22: under epoch the decay fires at an epoch end once the epochs have
   reached the start epoch; under epoch+batches and epoch+stalled it fires
   only when the epoch threshold and the second threshold are both
   reached. *)
C22_FiresWhenBothReached ==
  [][C22_EpochEnd =>
       (C22_Fired <=>
          /\ C22_EpochReached(state')
          /\ options.lrDecayStrategy # "epoch" => C22_SecondReached(state'))]_vars

(* C22, as the code has it: under epoch the decay fires at every epoch end
   at which the epochs have reached the start epoch; under epoch+batches and
   epoch+stalled it fires at every epoch end at which the epoch threshold or
   the second threshold (batches, respectively maxStalled) is reached. *)
C22_FiresWhenEitherReached ==
  [][C22_EpochEnd =>
       (C22_Fired <=>
          \/ C22_EpochReached(state')
          \/ C22_SecondReached(state'))]_vars

\* epoch+stalled: the end of the first epoch fired, on the stalled threshold
\* alone
C22_Witness ==
  /\ options.lrDecayStrategy = "epoch+stalled"
  /\ lastCall = "increaseEpoch"
  /\ state.epochs = 2
  /\ state.epochs < options.lrDecayStart[1]
  /\ state.maxStalled >= options.lrDecayStart[2]
  /\ state.firings = 1

\* the batches strategy with a start and a frequency
C23_Batches ==
  /\ options.lrDecayStrategy = "batches"
  /\ options.lrDecay > 0
  /\ options.lrDecayStart[1] > 0
  /\ options.lrDecayFreq > 0

\* the firings due in the first b batches: one at batch start and one every
\* freq batches after it
C23_FiringsUpTo(b) ==
  IF b < options.lrDecayStart[1] THEN 0
  ELSE (b - options.lrDecayStart[1]) \div options.lrDecayFreq + 1

(* C23: under the batches strategy with start > 0 and freq > 0 the decay
   fires after a batch iff batches >= start and (batches - start) % freq = 0:
   over a run it has fired once at batch start and once every freq batches
   after it, and never before start. *)
C23_FiresEveryFreqFromStart ==
  [][C23_Batches =>
       /\ state.firings = C23_FiringsUpTo(state.batches)
       /\ state'.firings = C23_FiringsUpTo(state'.batches)
       /\ (lastCall' = "update" /\ state'.batches = state.batches + 1) =>
            (state'.firings = state.firings + 1
               <=> /\ state'.batches >= options.lrDecayStart[1]
                   /\ (state'.batches - options.lrDecayStart[1])
                        % options.lrDecayFreq = 0)]_vars

\* start 2, freq 2: the fourth update() has fired the second time
C23_Witness ==
  /\ C23_Batches
  /\ options.lrDecayStart[1] = 2
  /\ options.lrDecayFreq = 2
  /\ lastCall = "update"
  /\ state.batches = 4
  /\ state.firings = 2
  /\ state.factor = Quarter

\* the stalled strategy with a threshold
C24_Stalled ==
  /\ options.lrDecayStrategy = "stalled"
  /\ options.lrDecay > 0
  /\ options.lrDecayStart[1] > 0

\* the step raised a stall event at which state.stalled is a multiple of the
\* threshold, and not 0
C24_StallEventAtMultiple ==
  /\ state'.stallEvents = state.stallEvents + 1
  /\ state'.stalled > 0
  /\ state'.stalled % options.lrDecayStart[1] = 0

(* C24: under the stalled strategy with threshold s > 0 the decay fires at
   the stall events at which state.stalled is a multiple of s other than 0,
   and at no other time: at most once per validate(), and never while
   stalled is 0. *)
C24_FiresAtMultiplesOfThreshold ==
  [][(C24_Stalled /\ ~state'.aborted) =>
       /\ state'.firings \in {state.firings, state.firings + 1}
       /\ state'.firings = state.firings + 1
            <=> (lastCall' = "validate" /\ C24_StallEventAtMultiple)]_vars

\* threshold 2: three stall events in a row, only the second one fired
C24_Witness ==
  /\ C24_Stalled
  /\ options.lrDecayStart[1] = 2
  /\ lastCall = "validate"
  /\ state.stalled = 3
  /\ state.stallEvents = 3
  /\ state.firings = 1

\* lr-decay-inv-sqrt is set (its scale n is above 0) and passes the checks
C25_Scheduled ==
  /\ ~ScheduledLRDecayAborts
  /\ Parse(options.lrDecayInvSqrt[1]).n > 0

\* what the claim says of the multiplier in state s
C25_MultiplierIn(s) ==
  LET args     == options.lrDecayInvSqrt
      n        == Parse(args[1]).n
      start    == IF Len(args) = 1 THEN n ELSE Parse(args[2]).n
      progress == getProgressIn(s, Parse(args[1]).unit)
      m        == getScheduledLRDecayFactor(s)
  IN  /\ progress <= start => m = One
      /\ progress > start =>
           /\ m = FSqrt(FDiv(n, progress - start + n))
           /\ 0 < m
           /\ m < One

(* C25: the scheduled inverse-square-root multiplier is exactly 1 while
   progress <= decay start; for progress > start it is
   sqrt(n / (progress - start + n)), which lies strictly between 0 and 1, and
   it does not increase as the run progresses; with one argument the start
   is n. *)
C25_InverseSqrtMultiplier ==
  [][C25_Scheduled =>
       /\ C25_MultiplierIn(state)
       /\ C25_MultiplierIn(state')
       /\ getScheduledLRDecayFactor(state') <= getScheduledLRDecayFactor(state)]_vars

\* one argument, 2t: the multiplier was 1 up to 2 labels and an update() has
\* brought it to sqrt(2 / 4)
C25_Witness ==
  /\ options.lrDecayInvSqrt = << <<2, "t">> >>
  /\ lastCall = "update"
  /\ ~state.aborted
  /\ state.labelsTotal = 4
  /\ getScheduledLRDecayFactor(state) = FSqrt(Half)

\* the step is a whole update() of a detector with a throw-after mark
C26_UpdateWithMark ==
  /\ Len(options.throwOnDivergence) > 3
  /\ throwAfter.n > 0
  /\ lastCall' = "update"
  /\ state'.batches = state.batches + 1

\* progress passes the mark in this update()
C26_PassesMark == enteredNewPeriodOfParam(state', throwAfter)

(* C26: with a throw-after mark the diagnostic divergence error is raised by
   the update() in which progress passes the mark, whatever the statistics
   and whatever the loss of that batch (an exception of the detector itself
   counts as raised), and by no earlier update(). *)
C26_DiagnosticAtMark ==
  [][C26_UpdateWithMark =>
       /\ C26_PassesMark => hist'.outcome \in {"diagnostic", "divergence"}
       /\ hist'.outcome = "diagnostic" => C26_PassesMark]_vars

\* the same for the batches whose loss is finite
C26_DiagnosticAtMarkOfFiniteLoss ==
  [][(C26_UpdateWithMark /\ hist'.lastLoss # NaN) =>
       /\ C26_PassesMark => hist'.outcome \in {"diagnostic", "divergence"}
       /\ hist'.outcome = "diagnostic" => C26_PassesMark]_vars

\* a batch of non-finite loss passes the mark and update() returns
C26_MarkPassedSilently ==
  /\ Len(options.throwOnDivergence) > 3
  /\ lastCall = "update"
  /\ enteredNewPeriodOfParam(state, throwAfter)
  /\ hist.lastLoss = NaN
  /\ hist.outcome = "ok"

-----------------------------------------------------------------------------
(* Two processes of one distributed run, each with its own Scheduler, calling
   the Scheduler's methods in lockstep: this process is the main process and
   peer is the worker. Every process has its own signal flag. *)

LockstepBase ==
  [BaseOptions EXCEPT !.validFreq = <<1, "u">>, !.dispFreq = <<3, "u">>]

LockstepOptions ==
  { [LockstepBase EXCEPT !.validMetrics = 1],
    [LockstepBase EXCEPT !.validMetrics = 2, !.validFreq = <<2, "u">>] }

\* the losses of the main process's shard and of the worker's shard
LockstepLosses == {Loss(One), Loss(2 * One)}
PeerLosses == {Loss(One)}

\* the worker's Scheduler right after its construction
NewPeer(opts) ==
  [state |-> updateLearningRate(NewTrainingState(opts.learnRate)),
   validators |-> <<>>,
   sigterm |-> FALSE,      \* the worker's own saveAndExitRequested()
   outcome |-> "ok",       \* how the worker's last call ended
   wrote |-> FALSE]        \* the worker's save() has written the files

InitLockstep ==
  \E o \in LockstepOptions :
    /\ options = o
    /\ mpi = "main"
    /\ state = updateLearningRate(NewTrainingState(o.learnRate))
    /\ validators = <<>>
    /\ first = TRUE
    /\ endOfStdin = FALSE
    /\ sigterm = FALSE
    /\ isFinal = FALSE
    /\ lastCall = "Scheduler"
    /\ ret = FALSE
    /\ hist = NoHist
    /\ progressYml = <<>>
    /\ peer = NewPeer(o)
    /\ pool = <<>>

PeerRunning ==
  /\ ~peer.state.aborted
  /\ peer.outcome \notin {"divergence", "diagnostic", "deadlock"}

\* both processes register the same validator
LockstepAddValidator ==
  /\ PeerRunning
  /\ AddValidatorLocal
  /\ \E v \in {NewValidator(Len(peer.validators) + 1)} :
       peer' = [peer EXCEPT
                  !.validators = Append(@, v),
                  !.state = RegisterValidator(@, v, Len(peer.validators) = 0),
                  !.outcome = "ok"]

\* both processes call update(), each with the loss of its own shard; the
\* all-reduce hands each the sum of its own loss and the other's
LockstepUpdate(lossMain, lossWorker) ==
  /\ PeerRunning
  /\ UpdateLocal(lossMain, lossWorker, 1, 2)
  /\ \E r \in {UpdateResult(peer.state, AllReduce(lossWorker, lossMain), 1, 2)} :
       peer' = [peer EXCEPT
                  !.state = r.state,
                  !.outcome = r.outcome,
                  !.validators = [i \in DOMAIN @ |->
                                    [@[i] EXCEPT !.runs = 0, !.computed = 0]]]

\* the early return of validate() on the worker
PeerValidateSkips ==
  \/ peer.sigterm
  \/ peer.state.validated
  \/ ~enteredNewPeriodOf(peer.state, options.validFreq) /\ ~isFinal

\* both processes call validate(graphs, isFinal). A process that does not
\* return early enters the broadcasts of its first validator, which complete
\* only if the other process enters them too
LockstepValidate ==
  /\ Running
  /\ PeerRunning
  /\ lastCall' = "validate"
  /\ ret' = FALSE
  /\ UNCHANGED <<pool, progressYml, options, mpi, first, endOfStdin, sigterm, isFinal>>
  /\ \A i \in DOMAIN validators : validators[i].stalled < MaxStalled
  /\ \E in \in ValidationInputs :
       /\ IF ValidateSkips
          THEN /\ hist' = [hist EXCEPT !.outcome = "skipped"]
               /\ UNCHANGED <<state, validators>>
          ELSE IF PeerValidateSkips /\ Len(validators) > 0
          THEN /\ validators' = [validators EXCEPT ![1] = ValidatorRun(@, in[1])]
               /\ hist' = [hist EXCEPT !.outcome = "deadlock"]
               /\ UNCHANGED state
          ELSE /\ validators' =
                    [i \in DOMAIN validators |-> ValidatorRun(validators[i], in[i])]
               /\ state' = ValidateState(state, validators, validators')
               /\ hist' = [hist EXCEPT
                             !.outcome = IF state'.aborted THEN "aborted" ELSE "ran"]
       /\ IF PeerValidateSkips
          THEN peer' = [peer EXCEPT !.outcome = "skipped"]
          ELSE IF ValidateSkips /\ Len(peer.validators) > 0
          THEN peer' = [peer EXCEPT !.outcome = "deadlock"]
          ELSE \E vs \in {[i \in DOMAIN peer.validators |->
                             ValidatorReceive(peer.validators[i], in[i])]} :
                 \E s \in {ValidateState(peer.state, peer.validators, vs)} :
                   peer' = [peer EXCEPT
                              !.validators = vs,
                              !.state = s,
                              !.outcome = IF s.aborted THEN "aborted" ELSE "ran"]

\* the signal reaches the main process
LockstepSignal == PeerRunning /\ SignalLocal /\ UNCHANGED peer

\* the signal reaches the worker
PeerSignal ==
  /\ Running
  /\ PeerRunning
  /\ ~peer.sigterm
  /\ peer' = [peer EXCEPT !.sigterm = TRUE]
  /\ UNCHANGED <<pool, progressYml, options, mpi, state, validators, first, endOfStdin,
                 sigterm, isFinal, lastCall, ret, hist>>

\* save(name) called on the main process
LockstepSave == PeerRunning /\ SaveLocal /\ UNCHANGED peer

\* save(name) called on the worker, with the name the main process uses
PeerSave ==
  /\ Running
  /\ PeerRunning
  /\ lastCall = "update"
  /\ progressYml' = <<Snapshot(peer.state)>>
  /\ peer' = [peer EXCEPT !.wrote = TRUE, !.outcome = "ok"]
  /\ lastCall' = "save"
  /\ ret' = FALSE
  /\ hist' = [hist EXCEPT !.outcome = "ok"]
  /\ UNCHANGED <<pool, options, mpi, state, validators, first, endOfStdin,
                 sigterm, isFinal>>

NextLockstep ==
  \/ LockstepAddValidator
  \/ \E lossMain \in LockstepLosses, lossWorker \in PeerLosses :
       LockstepUpdate(lossMain, lossWorker)
  \/ LockstepValidate
  \/ LockstepSignal
  \/ PeerSignal
  \/ LockstepSave
  \/ PeerSave

SpecLockstep == InitLockstep /\ [][NextLockstep]_vars

\* C27: in a distributed run whose processes call update() and validate() in
\* lockstep, whenever such a call has completed on both processes the two
\* TrainingStates hold the same costSum and costCount and the same stalled and
\* last-best entry per validator, and the validator objects agree too, although
\* only the main process computed a score.
C27_Completed ==
  /\ lastCall \in {"update", "validate"}
  /\ hist.outcome \in {"ok", "ran", "skipped"}
  /\ peer.outcome \in {"ok", "ran", "skipped"}

C27_WorkersConsistent ==
  C27_Completed =>
    /\ peer.state.costSum = state.costSum
    /\ peer.state.costCount = state.costCount
    /\ peer.state.validators = state.validators
    /\ \A i \in DOMAIN validators :
         /\ peer.validators[i].stalled = validators[i].stalled
         /\ peer.validators[i].lastBest = validators[i].lastBest
         /\ peer.validators[i].computed = 0

\* both processes have validated, the main process computed a score that
\* stalled the validator, and the accumulated cost is the all-reduced sum
C27_Witness ==
  /\ lastCall = "validate"
  /\ hist.outcome = "ran"
  /\ peer.outcome = "ran"
  /\ Len(validators) > 0
  /\ validators[1].computed = 1
  /\ peer.state.validators[1].stalled > 0
  /\ peer.state.costSum >= 2 * One

\* C28 (as the specification states it): validate() called in lockstep returns
\* on both processes, also when the signal has reached only one of them.
C28_NoDeadlock ==
  hist.outcome # "deadlock" /\ peer.outcome # "deadlock"

\* when the signal has reached both processes or neither, both take the same
\* decision and validate() returns on both
C28_SameSignalNoDeadlock ==
  [][(lastCall' = "validate" /\ sigterm = peer.sigterm)
       => (hist'.outcome # "deadlock" /\ peer'.outcome # "deadlock"
           /\ (hist'.outcome = "skipped") = (peer'.outcome = "skipped"))]_vars

\* the signal reached the worker only; the main process waits in a broadcast
\* the worker never enters
C28_MainBlocked ==
  /\ lastCall = "validate"
  /\ hist.outcome = "deadlock"
  /\ peer.outcome = "skipped"
  /\ peer.sigterm /\ ~sigterm

\* C29 (as the specification states it): save() on the worker writes no file.
C29_WorkerWritesNothing == ~peer.wrote

\* the worker's save() has replaced the progress file the main process wrote
C29_WorkerOverwrote ==
  /\ peer.wrote
  /\ hist.saved # <<>>
  /\ lastCall = "save"
  /\ progressYml = <<Snapshot(peer.state)>>

-----------------------------------------------------------------------------
(* The display window over saves, restarts and loads, on the main process of
   a distributed run, with and without no-restore-corpus *)

WindowOptions ==
  { PersistBase, [PersistBase EXCEPT !.noRestoreCorpus = TRUE] }

InitWindow == \E o \in WindowOptions : InitWith(o, "main")

NextWindow ==
  \/ AddValidator
  \/ Load
  \/ UpdatePersist
  \/ IncreaseEpoch
  \/ Validate
  \/ Save
  \/ Restart

SpecWindow == InitWindow /\ [][NextWindow]_vars

\* C30: costSum, costCount, updatesDisp, samplesDisp and wordsDisp are reset
\* together. A step of the Scheduler in which one of them becomes 0 leaves all
\* five 0; a load under no-restore-corpus leaves all five 0 whatever the
\* snapshot held; every other step leaves them alone, or is an update() that
\* adds the batch's loss, count, 1, batchSize and batchLabels to them, or is a
\* load that restores the five the snapshot holds.
C30_Window(s) ==
  <<s.costSum, s.costCount, s.updatesDisp, s.samplesDisp, s.wordsDisp>>

C30_Zeroed ==
  \E i \in 1..5 : C30_Window(state)[i] # 0 /\ C30_Window(state')[i] = 0

C30_Restored ==
  /\ lastCall' = "load"
  /\ progressYml # <<>>
  /\ C30_Window(state') = C30_Window(progressYml[1])

C30_Grown ==
  /\ lastCall' = "update"
  /\ C30_Window(state') =
       <<state.costSum + One, state.costCount + One, state.updatesDisp + 1,
         state.samplesDisp + 1, state.wordsDisp + 2>>

C30_ResetTogether ==
  [][/\ C30_Zeroed => C30_Window(state') = <<0, 0, 0, 0, 0>>
     /\ (lastCall' = "load" /\ hist'.outcome = "ok" /\ options.noRestoreCorpus)
          => C30_Window(state') = <<0, 0, 0, 0, 0>>
     /\ ~C30_Zeroed =>
          \/ C30_Window(state') = C30_Window(state)
          \/ C30_Grown
          \/ C30_Restored]_vars

\* a run resumed under no-restore-corpus from a snapshot saved inside a
\* display window (the load has reset samplesEpoch with the window), whose
\* next update() has closed the window
C30_Witness ==
  /\ options.noRestoreCorpus
  /\ progressYml # <<>>
  /\ progressYml[1].costSum # 0
  /\ progressYml[1].wordsDisp # 0
  /\ lastCall = "update"
  /\ hist.outcome = "ok"
  /\ state.batches = progressYml[1].batches + 1
  /\ state.epochs = progressYml[1].epochs
  /\ state.samplesEpoch = 1
  /\ C30_Window(state) = <<0, 0, 0, 0, 0>>

-----------------------------------------------------------------------------
(* Progress counters under update(), increaseEpoch(), validate() and the decay
   hooks they run, with the divergence detector armed *)

ProgressBase ==
  [BaseOptions EXCEPT !.validMetrics = 1, !.validFreq = <<1, "u">>,
                      !.lrDecay = Half, !.lrDecayStart = <<1, 1>>, !.lrDecayFreq = 1,
                      !.throwOnDivergence = << <<2, "">>, <<1, "">>, <<Half, "">> >>]

ProgressOptions ==
  { [ProgressBase EXCEPT !.lrDecayStrategy = "batches",
                         !.lrDecayResetOptimizer = TRUE],
    [ProgressBase EXCEPT !.lrDecayStrategy = "epoch",
                         !.throwOnDivergence =
                            << <<2, "">>, <<1, "">>, <<Half, "">>, <<3, "u">> >>] }

\* the batches update() is given: <<loss, label count>>
ProgressBatches == {<<One, 1>>, <<One, 2>>, <<4 * One, 2>>}

InitProgress == \E o \in ProgressOptions : InitWith(o, "none")

UpdateProgress(l, batchLabels) == Update(Loss(l), NoRemote, 1, batchLabels)

NextProgress ==
  \/ AddValidator
  \/ \E b \in ProgressBatches : UpdateProgress(b[1], b[2])
  \/ IncreaseEpoch
  \/ Validate

SpecProgress == InitProgress /\ [][NextProgress]_vars

\* C31: under update(), increaseEpoch(), validate() and the decay hooks they
\* run, epochs, batches and labelsTotal never decrease; an update() given a
\* batch of batchLabels labels increases batches by exactly 1 and labelsTotal
\* by exactly batchLabels, also when it ends by raising a divergence error.
C31_CountersMonotone ==
  [][/\ state'.epochs >= state.epochs
     /\ state'.batches >= state.batches
     /\ state'.labelsTotal >= state.labelsTotal
     /\ \A b \in ProgressBatches :
          UpdateProgress(b[1], b[2]) =>
            /\ state'.batches = state.batches + 1
            /\ state'.labelsTotal = state.labelsTotal + b[2]
            /\ state'.epochs = state.epochs]_vars

\* an update() has raised a divergence error after epochs, decays and batches
\* of both label counts, and the counters include the batch it was given
C31_Witness ==
  /\ lastCall = "update"
  /\ hist.outcome = "divergence"
  /\ state.epochs >= 2
  /\ state.firings >= 1
  /\ state.batches = 3
  /\ state.labelsTotal = 5

-----------------------------------------------------------------------------
(* Registration of validators before and after load(), over saves and
   restarts, on the main process of a distributed run *)

RegisterOptions ==
  { PersistBase,
    [PersistBase EXCEPT !.validMetrics = 2],
    [PersistBase EXCEPT !.validResetAll = TRUE] }

InitRegister == \E o \in RegisterOptions : InitWith(o, "main")

\* Scheduler::addValidator called by a training loop that loads the model,
\* and with it the Scheduler, before it registers its validators
AddValidatorLoaded ==
  /\ Running
  /\ lastCall = "load"
  /\ Len(validators) < options.validMetrics
  /\ \E v \in {NewValidator(Len(validators) + 1)} :
         /\ validators' = Append(validators, v)
         /\ state' = RegisterValidator(state, v, Len(validators) = 0)
         /\ hist' = [hist EXCEPT !.outcome = "ok", !.registered = @ \cup {v.type}]
  /\ lastCall' = "addValidator"
  /\ ret' = FALSE
  /\ UNCHANGED <<pool, peer, progressYml, options, mpi, first, endOfStdin, sigterm, isFinal>>

NextRegister ==
  \/ AddValidator
  \/ AddValidatorLoaded
  \/ Load
  \/ UpdatePersist
  \/ Validate
  \/ Save
  \/ Restart

SpecRegister == InitRegister /\ [][NextRegister]_vars

\* C32: in every reachable state, the states load() leaves before any
\* registration included, the TrainingState holds an entry only for a
\* validator type that addValidator() was given at least once (in this run or
\* in the run that wrote the snapshot); addValidator() on a state that is not
\* loaded creates the entry of the type with last-best initScore and stalled 0
\* and on a loaded state leaves the map as it was restored.
C32_Registering ==
  /\ lastCall' = "addValidator"
  /\ Len(validators') = Len(validators) + 1

C32_EntryOnlyAfterRegistration ==
  /\ [](DOMAIN state.validators \subseteq hist.registered)
  /\ [][C32_Registering =>
          IF state.loaded
          THEN state'.validators = state.validators
          ELSE /\ Len(validators') \in DOMAIN state'.validators
               /\ state'.validators[Len(validators')] =
                    [lastBest |-> initScore, stalled |-> 0]
               /\ \A ty \in DOMAIN state.validators \ {Len(validators')} :
                    state'.validators[ty] = state.validators[ty]]_vars

\* a validator registered after load(): the entry restored from the snapshot,
\* with the best score of the earlier run, is still the one in the state
C32_Witness ==
  /\ lastCall = "addValidator"
  /\ state.loaded
  /\ Len(validators) = 1
  /\ 1 \in DOMAIN state.validators
  /\ state.validators[1].lastBest < initScore
  /\ progressYml # <<>>
  /\ state.validators = progressYml[1].validators

-----------------------------------------------------------------------------
(* C33 (as the specification states it): with lr-warmup in updates or in
   target labels, a warmupStart that a warm-up restart has set to a progress
   above 0 has the unit of lr-warmup, and the computation of the learning
   rate does not end the run over it. *)
C33_WarmupInUpdatesOrLabels ==
  /\ Parse(options.lrWarmup).n > 0
  /\ Parse(options.lrWarmup).unit \in {"updates", "trgLabels"}

C33_RestartKeepsUnit ==
  (C33_WarmupInUpdatesOrLabels /\ state.warmupStart.n > 0)
    => /\ state.warmupStart.unit = Parse(options.lrWarmup).unit
       /\ (~ScheduledLRDecayAborts => ~state.aborted)

\* with lr-warmup in updates, the unit a new TrainingState's warmupStart has,
\* the restart leaves the units equal
C33_UpdatesUnitKept ==
  (Parse(options.lrWarmup) = [n |-> 2, unit |-> "updates"] /\ state.warmupStart.n > 0)
    => state.warmupStart.unit = "updates"

\* with lr-warmup in target labels the restart has stored a label count in a
\* warmupStart that still has the unit updates, and the next update() has
\* ended the run in the unit check
C33_RestartThenFatal ==
  /\ Parse(options.lrWarmup) = [n |-> 2, unit |-> "trgLabels"]
  /\ ~ScheduledLRDecayAborts
  /\ state.warmupStart.n > 0
  /\ state.warmupStart.unit = "updates"
  /\ lastCall = "update"
  /\ state.aborted

-----------------------------------------------------------------------------
(* C34: the request to reset the optimizer is edge-triggered. A hook
   (the batch-end hook in update(), the epoch-end hook in increaseEpoch(),
   the stall hook in a validate() that raises a stall event) returns with
   state.reset true only if this invocation fired a decay and
   lr-decay-reset-optimizer is set; a batch-end or stall hook that fires no
   decay returns with reset false, so a request raised earlier is cleared by
   the next update() that fires no decay. *)
C34_HookRan ==
  \/ lastCall' \in {"update", "increaseEpoch"}
  \/ lastCall' = "validate" /\ state'.stallEvents > state.stallEvents

C34_BatchOrStallHookRan ==
  \/ lastCall' = "update"
  \/ lastCall' = "validate" /\ state'.stallEvents > state.stallEvents

C34_Fired == state'.firings > state.firings

C34_ResetEdgeTriggered ==
  [][~state'.aborted =>
       /\ (C34_HookRan /\ state'.reset)
            => (C34_Fired /\ options.lrDecayResetOptimizer)
       /\ (C34_BatchOrStallHookRan /\ ~C34_Fired) => ~state'.reset]_vars

\* under the strategy epoch an epoch end has fired a decay and raised the
\* request, no stall event has happened, and the update() that followed, which
\* fires nothing under this strategy, has returned with the request cleared
C34_Witness ==
  /\ options.lrDecayStrategy = "epoch"
  /\ options.lrDecayResetOptimizer
  /\ state.firings >= 1
  /\ state.stallEvents = 0
  /\ lastCall = "update"
  /\ ~state.aborted
  /\ ~state.reset

-----------------------------------------------------------------------------
(* C35: stability of the stop decision under update(), validate(),
   increaseEpoch() and the signal, without a load *)

\* keepGoing() returns false for the signal, a progress threshold or the end
\* of the input stream
C35_StoppedForGood ==
  \/ sigterm
  \/ options.afterEpochs > 0 /\ LogicalEpochExceeds(state, options.afterEpochs)
  \/ options.afterBatches > 0 /\ state.batches >= options.afterBatches
  \/ \E i \in 1..Len(options.after) : StoppingCriterionMet(state, options.after[i])
  \/ endOfStdin

\* C35 (as the specification states it): once keepGoing() returns false it
\* returns false after every further call, whichever criterion fired, the
\* early-stopping stall threshold included.
C35_StopIsStable ==
  [][~keepGoing => ~keepGoing']_vars

\* C35, as the code has it: a stop for the signal, a progress threshold or the
\* end of the input stream is stable; a stop for the early-stopping stall
\* threshold alone lasts until a validate() takes stalled() below the
\* threshold again, and nothing else revokes a stop.
C35_StopIsStableUntilImprovement ==
  [][/\ (C35_StoppedForGood /\ ~keepGoing) => (C35_StoppedForGood' /\ ~keepGoing')
     /\ (~keepGoing /\ keepGoing') =>
          /\ lastCall' = "validate"
          /\ options.earlyStopping > 0
          /\ stalled(validators) >= options.earlyStopping
          /\ stalled(validators') < options.earlyStopping]_vars

\* keepGoing() returned false at the batch threshold, the run was updated
\* past it, and keepGoing(), asked again, has returned false
C35_Witness ==
  /\ options.afterBatches = 3
  /\ state.batches = MaxBatches
  /\ lastCall = "keepGoing"
  /\ ~ret
  /\ ~keepGoing

\* keepGoing() returns true again: the first validator had stalled up to the
\* early-stopping threshold and the last validate() improved on its best score
C35_StopRevoked ==
  /\ options.earlyStopping = 2
  /\ options.earlyStoppingOn = "first"
  /\ lastCall = "validate"
  /\ hist.outcome = "ran"
  /\ state.maxStalled >= 2
  /\ stalled(validators) = 0
  /\ keepGoing

-----------------------------------------------------------------------------
(* Evaluate::run (src/src/evaluator/evaluator.h): the main thread enqueues
   one task per batch, with the ids 0, 1, 2, ..., on a ThreadPool of as many
   threads as there are graphs; an idle thread of the pool takes the oldest
   queued task and runs it to its end. No Scheduler takes part. *)

MaxDevices == 3
MaxBatchId == 4

NoGraph == 0 - 1
NoTask == 0 - 1

\* the threads of the pool: 1 .. graphs_.size()
PoolThreads == 1..pool.size

\* Evaluate::Evaluate has filled graphs_ and models_, one per device, and
\* run() has constructed its pool; thread_local graph is null in every thread
NewPool(devices) ==
  [size |-> devices,       \* graphs_.size(), the number of threads
   batchId |-> 0,          \* the id the next enqueued task gets
   head |-> 0,             \* the oldest queued task: head .. batchId - 1 wait
   graph |-> [t \in 1..devices |-> NoGraph],   \* thread_local graph: an index of graphs_
   task |-> [t \in 1..devices |-> NoTask],     \* the task the thread is running
   ran |-> [t \in 1..devices |-> 0]]           \* tasks the thread has finished

InitEvaluate ==
  /\ options = <<>>
  /\ mpi = "none"
  /\ state = <<>>
  /\ validators = <<>>
  /\ first = FALSE
  /\ endOfStdin = FALSE
  /\ sigterm = FALSE
  /\ isFinal = FALSE
  /\ lastCall = "Evaluate"
  /\ ret = FALSE
  /\ hist = NoHist
  /\ progressYml = <<>>
  /\ peer = <<>>
  /\ \E devices \in 1..MaxDevices : pool = NewPool(devices)

\* pool.enqueue(task, batchId++): the queue of the pool holds at most
\* graphs_.size() waiting tasks
Enqueue ==
  /\ pool.batchId < MaxBatchId
  /\ pool.batchId - pool.head < pool.size
  /\ pool' = [pool EXCEPT !.batchId = @ + 1]
  /\ UNCHANGED <<options, mpi, state, validators, first, endOfStdin, sigterm,
                 isFinal, lastCall, ret, hist, progressYml, peer>>

\* the graph a thread that starts the task id works on: the one it bound on
\* its first task, graphs_[id % graphs_.size()]
BoundGraph(t, id) ==
  IF pool.graph[t] = NoGraph THEN id % pool.size ELSE pool.graph[t]

\* an idle thread takes the oldest task and enters it: it binds its graph if
\* it has none and starts builder->build(graph, batch), graph->forward()
TakeTask(t) ==
  /\ pool.task[t] = NoTask
  /\ pool.head < pool.batchId
  /\ pool' = [pool EXCEPT !.head = @ + 1,
                          !.task[t] = pool.head,
                          !.graph[t] = BoundGraph(t, pool.head)]
  /\ UNCHANGED <<options, mpi, state, validators, first, endOfStdin, sigterm,
                 isFinal, lastCall, ret, hist, progressYml, peer>>

\* the task of a thread has written its scores and returns
FinishTask(t) ==
  /\ pool.task[t] # NoTask
  /\ pool' = [pool EXCEPT !.task[t] = NoTask, !.ran[t] = @ + 1]
  /\ UNCHANGED <<options, mpi, state, validators, first, endOfStdin, sigterm,
                 isFinal, lastCall, ret, hist, progressYml, peer>>

NextEvaluate ==
  \/ Enqueue
  \/ \E t \in PoolThreads : TakeTask(t)
  \/ \E t \in PoolThreads : FinishTask(t)

SpecEvaluate == InitEvaluate /\ [][NextEvaluate]_vars

\* C36 (as the specification states it): no two threads of the pool run
\* build/forward on the same graph at the same time, and threads that have
\* bound a graph have bound different ones (a thread that runs a task has
\* bound its graph, so the second part carries the first).
C36_OneThreadPerGraph ==
  \A t1 \in PoolThreads, t2 \in PoolThreads :
    (t1 # t2 /\ pool.graph[t1] # NoGraph /\ pool.graph[t2] # NoGraph)
      => pool.graph[t1] # pool.graph[t2]

\* two devices: thread 1 ran task 0 and is running task 1 on graphs_[0];
\* thread 2 took task 2 as its first task, bound graphs_[0] as well and runs
\* on it at the same time; graphs_[1] is used by nobody
C36_TwoThreadsOnOneGraph ==
  /\ pool.size = 2
  /\ pool.ran[1] = 1
  /\ pool.task[1] = 1
  /\ pool.task[2] = 2
  /\ pool.graph[1] = 0
  /\ pool.graph[2] = 0

\* with one device there is one thread and one graph
C36_SingleDeviceSafe ==
  pool.size = 1 => \A t \in PoolThreads : pool.graph[t] \in {NoGraph, 0}

====
